---- MODULE Spec2Model ----
(***************************************************************************)
(* Model of the BioAmplify-Analytics statistics engine                     *)
(* (src/utils/statistics.py) and of the handlers that call it.             *)
(*                                                                         *)
(* The engine computes on Python floats, which are IEEE-754 binary64       *)
(* numbers.  The first part of the module is that arithmetic: a finite     *)
(* float is sign * mantissa * 2^exponent with a 53-bit mantissa and every  *)
(* operation rounds its exact result to nearest, ties to even.  Mantissas  *)
(* are wider than the integers of TLC, so they are kept as                 *)
(* little-endian sequences of limbs.                                       *)
(***************************************************************************)
EXTENDS Integers, Sequences, FiniteSets, TLC

\* ------------------------------------------------------------------------
\* Natural numbers of any size: little-endian limb sequences, no high zero
\* limb, <<>> is 0.
\* ------------------------------------------------------------------------

LimbBits == 15

Base == 2^LimbBits

MantBits == 53

RECURSIVE Trim(_)
Trim(a) ==
    IF Len(a) = 0 \/ a[Len(a)] # 0 THEN a ELSE Trim(SubSeq(a, 1, Len(a) - 1))

RECURSIVE NatToBig(_)
NatToBig(n) == IF n = 0 THEN <<>> ELSE <<n % Base>> \o NatToBig(n \div Base)

Limb(a, i) == IF i <= Len(a) THEN a[i] ELSE 0

Zeros(k) == [i \in 1..k |-> 0]

RECURSIVE CmpFrom(_, _, _)
CmpFrom(a, b, i) ==
    IF i = 0 THEN 0
    ELSE IF a[i] < b[i] THEN -1
    ELSE IF a[i] > b[i] THEN 1
    ELSE CmpFrom(a, b, i - 1)

BigCmp(a, b) ==
    IF Len(a) < Len(b) THEN -1
    ELSE IF Len(a) > Len(b) THEN 1
    ELSE CmpFrom(a, b, Len(a))

RECURSIVE AddFrom(_, _, _, _)
AddFrom(a, b, i, c) ==
    IF i > Len(a) /\ i > Len(b)
    THEN (IF c = 0 THEN <<>> ELSE <<c>>)
    ELSE LET t == Limb(a, i) + Limb(b, i) + c
         IN  <<t % Base>> \o AddFrom(a, b, i + 1, t \div Base)

BigAdd(a, b) == AddFrom(a, b, 1, 0)

RECURSIVE SubFrom(_, _, _, _)
SubFrom(a, b, i, br) ==
    IF i > Len(a) THEN <<>>
    ELSE LET t == a[i] - Limb(b, i) - br
         IN  IF t < 0 THEN <<t + Base>> \o SubFrom(a, b, i + 1, 1)
                      ELSE <<t>> \o SubFrom(a, b, i + 1, 0)

\* a - b for a >= b
BigSub(a, b) == Trim(SubFrom(a, b, 1, 0))

RECURSIVE MulSmallFrom(_, _, _, _)
MulSmallFrom(a, d, i, c) ==
    IF i > Len(a)
    THEN (IF c = 0 THEN <<>> ELSE <<c>>)
    ELSE LET t == a[i] * d + c
         IN  <<t % Base>> \o MulSmallFrom(a, d, i + 1, t \div Base)

\* a * d for a limb d
BigMulSmall(a, d) == IF d = 0 THEN <<>> ELSE MulSmallFrom(a, d, 1, 0)

RECURSIVE MulFrom(_, _, _)
MulFrom(a, b, j) ==
    IF j > Len(b) THEN <<>>
    ELSE IF b[j] = 0 THEN MulFrom(a, b, j + 1)
    ELSE BigAdd(Zeros(j - 1) \o BigMulSmall(a, b[j]), MulFrom(a, b, j + 1))

BigMul(a, b) == IF a = <<>> THEN <<>> ELSE MulFrom(a, b, 1)

BigShl(a, k) ==
    IF a = <<>> THEN <<>>
    ELSE Zeros(k \div LimbBits) \o BigMulSmall(a, 2^(k % LimbBits))

ShrBits(a, r) ==
    [i \in 1..Len(a) |->
        (a[i] \div 2^r) + (Limb(a, i + 1) % 2^r) * 2^(LimbBits - r)]

BigShr(a, k) ==
    LET q == k \div LimbBits
    IN  IF q >= Len(a) THEN <<>>
        ELSE Trim(ShrBits(SubSeq(a, q + 1, Len(a)), k % LimbBits))

RECURSIVE SmallBitLen(_)
SmallBitLen(n) == IF n = 0 THEN 0 ELSE 1 + SmallBitLen(n \div 2)

BigBitLen(a) ==
    IF a = <<>> THEN 0 ELSE LimbBits * (Len(a) - 1) + SmallBitLen(a[Len(a)])

BigOdd(a) == a # <<>> /\ a[1] % 2 = 1

\* The step shared by restoring division and the digit-by-digit square
\* root: subtract d from the extended remainder r when it fits and set the
\* low bit of the extended result q2.
Pick(r, d, q2) ==
    IF BigCmp(r, d) >= 0 THEN <<BigSub(r, d), BigAdd(q2, <<1>>)>> ELSE <<r, q2>>

\* One step of restoring division on st = <<remainder, quotient>>: the next
\* quotient bit of remainder / d.
DivStep(st, d) == Pick(BigMulSmall(st[1], 2), d, BigMulSmall(st[2], 2))

DivStep4(st, d) == DivStep(DivStep(DivStep(DivStep(st, d), d), d), d)

\* 8 * n steps: <<remainder, quotient>> of (st[1] * 2^(8n)) / d after the
\* quotient bits st[2] found so far (st[1] < d).
RECURSIVE DivLoop(_, _, _)
DivLoop(st, d, n) ==
    IF n = 0 THEN st
    ELSE IF st[1] = <<>> THEN <<st[1], BigShl(st[2], 8 * n)>>
    ELSE DivLoop(DivStep4(DivStep4(st, d), d), d, n - 1)

\* <<remainder, quotient>> before the first step: the integer bit of a / b
\* for a < 2 * b
DivStart(a, b) == IF BigCmp(a, b) >= 0 THEN <<BigSub(a, b), <<1>>>> ELSE <<a, <<>>>>

\* Base-4 digit i (0 is the lowest) of n
Digit4(n, i) ==
    LET c == i \div LimbBits
        v == Limb(n, 2 * c + 1) + Base * Limb(n, 2 * c + 2)
    IN  (v \div 4^(i % LimbBits)) % 4

\* r4 + dg for r4 a multiple of 4 and a base-4 digit dg
AddDigit(r4, dg) == IF dg = 0 THEN r4 ELSE BigAdd(r4, <<dg>>)

\* One step of the digit-by-digit integer square root: st = <<remainder,
\* root>> of the digits of n above digit i, extended by digit i.
SqrtStep(st, n, i) ==
    IF i < 0 THEN st
    ELSE Pick(AddDigit(BigMulSmall(st[1], 4), Digit4(n, i)),
              BigAdd(BigMulSmall(st[2], 4), <<1>>),
              BigMulSmall(st[2], 2))

RECURSIVE SqrtLoop(_, _, _)
SqrtLoop(st, n, i) ==
    IF i < 0 THEN st
    ELSE IF st[2] = <<>> /\ Digit4(n, i) = 0 THEN SqrtLoop(st, n, i - 1)
    ELSE SqrtLoop(SqrtStep(SqrtStep(SqrtStep(SqrtStep(st, n, i), n, i - 1), n, i - 2), n, i - 3),
                  n, i - 4)

\* <<remainder, root>> of the integer square root of n
BigSqrt(n) == SqrtLoop(<<<<>>, <<>>>>, n, (BigBitLen(n) + 1) \div 2 - 1)

\* ------------------------------------------------------------------------
\* Python floats.  k is "fin", "inf" or "nan"; a finite value is
\* (-1)^s * m * 2^e with m = 0 or 2^52 <= m < 2^53.
\* ------------------------------------------------------------------------

FZero == [k |-> "fin", s |-> 0, m |-> <<>>, e |-> 0]

FInf == [k |-> "inf", s |-> 0, m |-> <<>>, e |-> 0]

FNaN == [k |-> "nan", s |-> 0, m |-> <<>>, e |-> 0]

Finite(s, m, e) == [k |-> "fin", s |-> s, m |-> m, e |-> e]

\* q * 2^e with q < 2^(MantBits + 1): a carry out of the rounding leaves
\* q = 2^MantBits, which is halved
Normal(s, q, e) ==
    IF BigBitLen(q) > MantBits THEN Finite(s, BigShr(q, 1), e + 1) ELSE Finite(s, q, e)

\* q * 2^e plus a discarded part: c compares the discarded bits with half
\* of the last kept bit, sticky tells of a nonzero amount below them
RoundUp(s, q, e, c, sticky) ==
    Normal(s, IF c > 0 \/ (c = 0 /\ (sticky \/ BigOdd(q))) THEN BigAdd(q, <<1>>) ELSE q, e)

\* n * 2^e with the low sh bits of n discarded: q is n shifted right by sh
RoundCut(s, n, e, sticky, sh, q) ==
    RoundUp(s, q, e + sh, BigCmp(BigSub(n, BigShl(q, sh)), BigShl(<<1>>, sh - 1)), sticky)

\* n * 2^e for n of l bits
RoundLen(s, n, e, sticky, l) ==
    IF l = 0 THEN FZero
    ELSE IF l <= MantBits THEN Finite(s, BigShl(n, MantBits - l), e - (MantBits - l))
    ELSE RoundCut(s, n, e, sticky, l - MantBits, BigShr(n, l - MantBits))

\* Round n * 2^e (plus a nonzero amount below the last bit of n when
\* sticky) to the nearest float, ties to even.
Round(s, n, e, sticky) == RoundLen(s, n, e, sticky, BigBitLen(n))

\* Round a <<remainder, result>> pair: a nonzero remainder is the sticky part
RoundPair(s, st, e) == Round(s, st[2], e, st[1] # <<>>)

\* float(n) for a Python int n
FromInt(n) == Round(IF n < 0 THEN 1 ELSE 0, NatToBig(IF n < 0 THEN -n ELSE n), 0, FALSE)

\* 1.0
FOne == Finite(0, <<0, 0, 0, 128>>, -52)

FIsZero(x) == x.k = "fin" /\ x.m = <<>>

FNeg(x) == IF x.k = "nan" \/ FIsZero(x) THEN x ELSE [x EXCEPT !.s = 1 - x.s]

\* -1, 0, 1 for the magnitudes of two finite floats
MagCmp(x, y) ==
    IF x.m = <<>> THEN (IF y.m = <<>> THEN 0 ELSE -1)
    ELSE IF y.m = <<>> THEN 1
    ELSE IF x.e < y.e THEN -1
    ELSE IF x.e > y.e THEN 1
    ELSE BigCmp(x.m, y.m)

\* -1, 0, 1 for x < y, x = y, x > y; neither argument is nan
FCmp(x, y) ==
    IF x.k = "inf" \/ y.k = "inf"
    THEN LET vx == IF x.k = "inf" THEN 1 - 2 * x.s ELSE 0
             vy == IF y.k = "inf" THEN 1 - 2 * y.s ELSE 0
         IN  IF vx < vy THEN -1 ELSE IF vx > vy THEN 1 ELSE 0
    ELSE IF x.s # y.s THEN (IF x.s = 1 THEN -1 ELSE 1)
    ELSE IF x.s = 0 THEN MagCmp(x, y) ELSE MagCmp(y, x)

\* Python comparisons: every comparison with nan is false
FLt(x, y) == x.k # "nan" /\ y.k # "nan" /\ FCmp(x, y) < 0

FLe(x, y) == x.k # "nan" /\ y.k # "nan" /\ FCmp(x, y) <= 0

FGt(x, y) == FLt(y, x)

FGe(x, y) == FLe(y, x)

FEq(x, y) == x.k # "nan" /\ y.k # "nan" /\ FCmp(x, y) = 0

\* (-1)^sa * a * 2^e + (-1)^sb * b * 2^e for mantissas that differ in sign;
\* c compares a with b
SubMant(sa, a, sb, b, e, c) ==
    IF c > 0 THEN Round(sa, BigSub(a, b), e, FALSE) ELSE Round(sb, BigSub(b, a), e, FALSE)

\* (-1)^sa * a * 2^e + (-1)^sb * b * 2^e; an exact zero sum is +0.0
AddMant(sa, a, sb, b, e) ==
    IF sa = sb THEN Round(sa, BigAdd(a, b), e, FALSE) ELSE SubMant(sa, a, sb, b, e, BigCmp(a, b))

\* hi + lo for nonzero finite floats with hi.e >= lo.e; a term below the
\* sticky range of the other leaves it unchanged
AddAligned(hi, lo) ==
    IF hi.e - lo.e > 64 THEN hi
    ELSE AddMant(hi.s, BigShl(hi.m, hi.e - lo.e), lo.s, lo.m, lo.e)

FAddFin(x, y) ==
    IF x.m = <<>> THEN y
    ELSE IF y.m = <<>> THEN x
    ELSE IF x.e >= y.e THEN AddAligned(x, y)
    ELSE AddAligned(y, x)

\* x + y
FAdd(x, y) ==
    IF x.k = "nan" \/ y.k = "nan" THEN FNaN
    ELSE IF x.k = "inf" /\ y.k = "inf" THEN (IF x.s = y.s THEN x ELSE FNaN)
    ELSE IF x.k = "inf" THEN x
    ELSE IF y.k = "inf" THEN y
    ELSE FAddFin(x, y)

\* x - y
FSub(x, y) == FAdd(x, FNeg(y))

\* x * y
FMul(x, y) ==
    IF x.k = "nan" \/ y.k = "nan" THEN FNaN
    ELSE IF x.k = "inf" \/ y.k = "inf"
    THEN (IF FIsZero(x) \/ FIsZero(y) THEN FNaN ELSE [FInf EXCEPT !.s = (x.s + y.s) % 2])
    ELSE IF x.m = <<>> \/ y.m = <<>> THEN FZero
    ELSE Round((x.s + y.s) % 2, BigMul(x.m, y.m), x.e + y.e, FALSE)

\* quotient bits computed by a division, in groups of 8: more than
\* MantBits + 2, so that rounding sees a round bit and a sticky bit
DivBytes == (MantBits + 2) \div 8 + 1

\* x / y for y # 0 (Python raises ZeroDivisionError for y = 0)
FDiv(x, y) ==
    IF x.k = "nan" \/ y.k = "nan" THEN FNaN
    ELSE IF x.k = "inf"
    THEN (IF y.k = "inf" THEN FNaN ELSE [FInf EXCEPT !.s = (x.s + y.s) % 2])
    ELSE IF y.k = "inf" \/ x.m = <<>> THEN FZero
    ELSE RoundPair((x.s + y.s) % 2, DivLoop(DivStart(x.m, y.m), y.m, DivBytes),
                   x.e - y.e - 8 * DivBytes)

\* the even shift that gives the square root MantBits + 2 bits or more
SqrtShift(e) == IF (e - (MantBits + 3)) % 2 = 0 THEN MantBits + 3 ELSE MantBits + 4

\* math.sqrt(x) for x >= 0 (Python raises ValueError for x < 0)
FSqrt(x) ==
    IF x.k # "fin" \/ x.m = <<>> THEN x
    ELSE RoundPair(0, BigSqrt(BigShl(x.m, SqrtShift(x.e))), (x.e - SqrtShift(x.e)) \div 2)

\* int(x): truncation toward zero of a finite float, as a small integer
RECURSIVE BigToNat(_)
BigToNat(a) == IF a = <<>> THEN 0 ELSE a[1] + Base * BigToNat(Tail(a))

FTrunc(x) ==
    (1 - 2 * x.s) * (IF x.m = <<>> THEN 0
                     ELSE IF x.e >= 0 THEN BigToNat(BigShl(x.m, x.e))
                     ELSE BigToNat(BigShr(x.m, -x.e)))

\* a decimal literal num/den (den a power of ten) and the quotient of two ints
\* are both the float nearest to the exact ratio
FRatio(num, den) == FDiv(FromInt(num), FromInt(den))

FMax(x, y) == IF FGt(y, x) THEN y ELSE x

FMin(x, y) == IF FLt(y, x) THEN y ELSE x

\* ------------------------------------------------------------------------
\* calculate_diagnostic_stats (src/utils/statistics.py), at the default
\* confidence = 0.95.
\* ------------------------------------------------------------------------

\* stats.norm.ppf((1 + 0.95) / 2) = 1.959963984540054 = 0x1.f5c0331eeff84p+0
ZCritical == [k |-> "fin", s |-> 0, m |-> <<32644, 25565, 28684, 250>>, e |-> -52]

Raise(error, message) == [status |-> "raised", error |-> error, message |-> message]

\* math.sqrt raises ValueError("math domain error") for a negative argument
MathDomainError == Raise("ValueError", "math domain error")

SqrtDomainError(x) == x.k = "fin" /\ x.s = 1 /\ x.m # <<>>

Sensitivity(tp, fn) == IF tp + fn > 0 THEN FRatio(tp, tp + fn) ELSE FZero

\* a plausible fault: the percentage returned in place of the fraction
SpecificityAsPercentage(tn, fp) ==
    IF tn + fp > 0 THEN FMul(FRatio(tn, tn + fp), FromInt(100)) ELSE FZero

Specificity(tn, fp) == IF tn + fp > 0 THEN FRatio(tn, tn + fp) ELSE FZero

Ppv(tp, fp) == IF tp + fp > 0 THEN FRatio(tp, tp + fp) ELSE FZero

\* a plausible fault: the false negatives counted in place of the true negatives
NpvOfFalseNegatives(tn, fn) == IF tn + fn > 0 THEN FRatio(fn, tn + fn) ELSE FZero

Npv(tn, fn) == IF tn + fn > 0 THEN FRatio(tn, tn + fn) ELSE FZero

Accuracy(tp, tn, total) == FRatio(tp + tn, total)

Prevalence(tp, fn, total) == FRatio(tp + fn, total)

Fpr(fp, tn) == IF fp + tn > 0 THEN FRatio(fp, fp + tn) ELSE FZero

Fnr(fn, tp) == IF fn + tp > 0 THEN FRatio(fn, fn + tp) ELSE FZero

LrPositive(sensitivity, fpr) == IF FGt(fpr, FZero) THEN FDiv(sensitivity, fpr) ELSE FInf

\* a plausible fault: 0 in place of infinity when the specificity is 0
LrNegativeZeroDefault(fnr, specificity) ==
    IF FGt(specificity, FZero) THEN FDiv(fnr, specificity) ELSE FZero

LrNegative(fnr, specificity) ==
    IF FGt(specificity, FZero) THEN FDiv(fnr, specificity) ELSE FInf

Dor(lr_positive, lr_negative) ==
    IF FGt(lr_negative, FZero) THEN FDiv(lr_positive, lr_negative) ELSE FInf

F1Score(ppv, sensitivity) ==
    IF FGt(FAdd(ppv, sensitivity), FZero)
    THEN FDiv(FMul(FromInt(2), FMul(ppv, sensitivity)), FAdd(ppv, sensitivity))
    ELSE FZero

MccNumerator(tp, fp, tn, fn) == (tp * tn) - (fp * fn)

\* the argument of math.sqrt in mcc_denominator
MccProduct(tp, fp, tn, fn) == (tp + fp) * (tp + fn) * (tn + fp) * (tn + fn)

MccQuotient(mcc_numerator, mcc_denominator) ==
    IF FGt(mcc_denominator, FZero) THEN FDiv(mcc_numerator, mcc_denominator) ELSE FZero

Mcc(tp, fp, tn, fn) ==
    IF MccProduct(tp, fp, tn, fn) < 0 THEN MathDomainError
    ELSE MccQuotient(FromInt(MccNumerator(tp, fp, tn, fn)),
                     FSqrt(FromInt(MccProduct(tp, fp, tn, fn))))

\* 1 + z*z/n
WilsonDenominator(n) == FAdd(FOne, FDiv(FMul(ZCritical, ZCritical), FromInt(n)))

\* the argument of math.sqrt in wilson_ci: (p*(1-p) + z*z/(4*n)) / n
WilsonRadicand(p, n) ==
    FDiv(FAdd(FMul(p, FSub(FOne, p)), FDiv(FMul(ZCritical, ZCritical), FromInt(4 * n))),
         FromInt(n))

WilsonCenter(p, n) ==
    FDiv(FAdd(p, FDiv(FMul(ZCritical, ZCritical), FromInt(2 * n))), WilsonDenominator(n))

WilsonMargin(radicand, n) == FDiv(FMul(ZCritical, FSqrt(radicand)), WilsonDenominator(n))

\* (max(0, center - margin), min(1, center + margin))
WilsonBounds(center, margin) ==
    [lower |-> FMax(FZero, FSub(center, margin)), upper |-> FMin(FOne, FAdd(center, margin))]

WilsonInterval(p, n, radicand) ==
    IF SqrtDomainError(radicand) THEN MathDomainError
    ELSE WilsonBounds(WilsonCenter(p, n), WilsonMargin(radicand, n))

WilsonOf(p, n) == WilsonInterval(p, n, WilsonRadicand(p, n))

\* wilson_ci(x, n)
WilsonCI(x, n) ==
    IF n = 0 THEN [lower |-> FZero, upper |-> FZero] ELSE WilsonOf(FRatio(x, n), n)

Proportion(value, ci) ==
    [value |-> value, percentage |-> FMul(value, FromInt(100)),
     ci_lower |-> ci.lower, ci_upper |-> ci.upper]

ObservedAgreement(tp, fp, tn, fn) == FRatio(tp + tn, tp + fp + tn + fn)

\* a plausible fault: each actual marginal paired with the opposite predicted one
ExpectedAgreementCrossed(tp, fp, tn, fn) ==
    FRatio((tp + fn) * (tn + fn) + (tn + fp) * (tp + fp),
           (tp + fp + tn + fn) * (tp + fp + tn + fn))

ExpectedAgreement(tp, fp, tn, fn) ==
    FRatio((tp + fn) * (tp + fp) + (tn + fp) * (tn + fn),
           (tp + fp + tn + fn) * (tp + fp + tn + fn))

KappaValue(observed_agreement, expected_agreement) ==
    FDiv(FSub(observed_agreement, expected_agreement), FSub(FOne, expected_agreement))

\* x**2
Square(x) == FMul(x, x)

\* the argument of math.sqrt in se_kappa
SeKappaRadicand(total_samples, expected_agreement) ==
    FDiv(expected_agreement,
         FMul(FromInt(total_samples), Square(FSub(FOne, expected_agreement))))

\* a plausible fault: the lower limit left unclipped, as calculate_cohens_kappa has it
KappaCIUpperOnly(kappa_value, se_kappa) ==
    [lower |-> FSub(kappa_value, FMul(ZCritical, se_kappa)),
     upper |-> FMin(FOne, FAdd(kappa_value, FMul(ZCritical, se_kappa)))]

\* (max(-1.0, kappa - z * se), min(1.0, kappa + z * se))
KappaCI(kappa_value, se_kappa) ==
    [lower |-> FMax(FNeg(FOne), FSub(kappa_value, FMul(ZCritical, se_kappa))),
     upper |-> FMin(FOne, FAdd(kappa_value, FMul(ZCritical, se_kappa)))]

\* Interpretation based on Altman scale
InterpretKappa(kappa) ==
    IF FLt(kappa, FRatio(20, 100)) THEN "Poor agreement"
    ELSE IF FLt(kappa, FRatio(40, 100)) THEN "Fair agreement"
    ELSE IF FLt(kappa, FRatio(60, 100)) THEN "Moderate agreement"
    ELSE IF FLt(kappa, FRatio(80, 100)) THEN "Good agreement"
    ELSE "Very good agreement"

KappaEntry(kappa_value, kappa_ci, kappa_interpretation) ==
    [value |-> kappa_value, ci_lower |-> kappa_ci.lower, ci_upper |-> kappa_ci.upper,
     interpretation |-> kappa_interpretation]

\* the values the kappa variables are initialised with
KappaDefault == KappaEntry(FZero, [lower |-> FZero, upper |-> FZero], "Not calculated")

KappaWithCI(kappa_value, radicand) ==
    IF SqrtDomainError(radicand) THEN MathDomainError
    ELSE KappaEntry(kappa_value, KappaCI(kappa_value, FSqrt(radicand)),
                    InterpretKappa(kappa_value))

\* the body of "if total_samples > 0"
KappaOf(total_samples, observed_agreement, expected_agreement) ==
    IF FLt(expected_agreement, FOne)
    THEN KappaWithCI(KappaValue(observed_agreement, expected_agreement),
                     SeKappaRadicand(total_samples, expected_agreement))
    ELSE KappaDefault

KappaProxy(tp, fp, tn, fn) ==
    IF tp + fp + tn + fn > 0
    THEN KappaOf(tp + fp + tn + fn, ObservedAgreement(tp, fp, tn, fn),
                 ExpectedAgreement(tp, fp, tn, fn))
    ELSE KappaDefault

\* a plausible fault: the validation rejects a negative sum only
AllZeroNegativeSum(tp, fp, tn, fn) == tp + fp + tn + fn < 0

\* Basic validation
AllZero(tp, fp, tn, fn) == tp + fp + tn + fn = 0

\* the returned dictionary; a math.sqrt that raised ends the call instead
StatsDict(total, sensitivity, specificity, ppv, npv, accuracy, prevalence, lr_positive, lr_negative, mcc, sensitivity_ci, specificity_ci, ppv_ci, npv_ci, accuracy_ci, kappa) ==
    IF \/ mcc = MathDomainError
       \/ sensitivity_ci = MathDomainError
       \/ specificity_ci = MathDomainError
       \/ ppv_ci = MathDomainError
       \/ npv_ci = MathDomainError
       \/ accuracy_ci = MathDomainError
       \/ kappa = MathDomainError
    THEN MathDomainError
    ELSE [status |-> "returned",
          sensitivity |-> Proportion(sensitivity, sensitivity_ci),
          specificity |-> Proportion(specificity, specificity_ci),
          ppv |-> Proportion(ppv, ppv_ci),
          npv |-> Proportion(npv, npv_ci),
          accuracy |-> Proportion(accuracy, accuracy_ci),
          prevalence |-> [value |-> prevalence, percentage |-> FMul(prevalence, FromInt(100))],
          f1_score |-> F1Score(ppv, sensitivity),
          mcc |-> mcc,
          likelihood_ratios |-> [positive |-> lr_positive, negative |-> lr_negative],
          diagnostic_odds_ratio |-> Dor(lr_positive, lr_negative),
          cohens_kappa |-> kappa,
          sample_size |-> total,
          confidence_level |-> FRatio(95, 100)]

CalculateDiagnosticStats(tp, fp, tn, fn) ==
    IF AllZero(tp, fp, tn, fn)
    THEN Raise("ValueError", "All confusion matrix values cannot be zero")
    ELSE IF tp + fp + tn + fn = 0
    THEN Raise("ZeroDivisionError", "division by zero")
    ELSE StatsDict(tp + fp + tn + fn,
                   Sensitivity(tp, fn), Specificity(tn, fp), Ppv(tp, fp), Npv(tn, fn),
                   Accuracy(tp, tn, tp + fp + tn + fn),
                   Prevalence(tp, fn, tp + fp + tn + fn),
                   LrPositive(Sensitivity(tp, fn), Fpr(fp, tn)),
                   LrNegative(Fnr(fn, tp), Specificity(tn, fp)),
                   Mcc(tp, fp, tn, fn),
                   WilsonCI(tp, tp + fn), WilsonCI(tn, tn + fp), WilsonCI(tp, tp + fp),
                   WilsonCI(tn, tn + fn), WilsonCI(tp + tn, tp + fp + tn + fn),
                   KappaProxy(tp, fp, tn, fn))

\* ------------------------------------------------------------------------
\* calculate_cohens_kappa (src/utils/statistics.py), at the default
\* confidence = 0.95.  Ratings are small integers.
\* ------------------------------------------------------------------------

\* np.unique(np.concatenate([rater1, rater2])): the labels in ascending order
RECURSIVE SortedSeq(_)
SortedSeq(S) ==
    IF S = {} THEN <<>>
    ELSE LET lo == CHOOSE x \in S : \A y \in S : x <= y
         IN  <<lo>> \o SortedSeq(S \ {lo})

Categories(rater1, rater2) ==
    SortedSeq({rater1[i] : i \in 1..Len(rater1)} \cup {rater2[i] : i \in 1..Len(rater2)})

\* contingency[i, j] = np.sum((rater1 == cat1) & (rater2 == cat2))
ContingencyOver(categories, rater1, rater2) ==
    [i \in 1..Len(categories) |-> [j \in 1..Len(categories) |->
        Cardinality({x \in 1..Len(rater1) :
                        rater1[x] = categories[i] /\ rater2[x] = categories[j]})]]

Contingency(rater1, rater2) == ContingencyOver(Categories(rater1, rater2), rater1, rater2)

RECURSIVE IntSum(_, _)
IntSum(f, k) == IF k = 0 THEN 0 ELSE f[k] + IntSum(f, k - 1)

RowSums(c) == [i \in 1..Len(c) |-> IntSum(c[i], Len(c))]

ColSums(c) == [j \in 1..Len(c) |-> IntSum([i \in 1..Len(c) |-> c[i][j]], Len(c))]

Trace(c) == IntSum([i \in 1..Len(c) |-> c[i][i]], Len(c))

\* np.sum of a float array of fewer than 8 elements: added in order
RECURSIVE FSum(_, _)
FSum(a, k) == IF k = 0 THEN FZero ELSE FAdd(FSum(a, k - 1), a[k])

\* expected = np.outer(sum0, sum1) / np.sum(sum0), weighted by w_mat (0 on
\* the diagonal, 1 off it) and flattened
WeightedExpected(sum0, sum1, k, n) ==
    [x \in 1..(k * k) |->
        IF (x - 1) \div k = (x - 1) % k THEN FZero
        ELSE FRatio(sum0[((x - 1) \div k) + 1] * sum1[((x - 1) % k) + 1], n)]

\* 1 - k for k = disagree / expected; numpy gives nan for 0/0 and inf for
\* a nonzero count over 0
KappaScore(disagree, expected) ==
    IF FIsZero(expected)
    THEN (IF disagree = 0 THEN FNaN ELSE FSub(FOne, FInf))
    ELSE FSub(FOne, FDiv(FromInt(disagree), expected))

ConfusionKappa(confusion, n) ==
    KappaScore(n - Trace(confusion),
               FSum(WeightedExpected(ColSums(confusion), RowSums(confusion), Len(confusion), n),
                    Len(confusion) * Len(confusion)))

\* sklearn.metrics.cohen_kappa_score(rater1, rater2) without weights:
\* 1 - sum(w_mat * confusion) / sum(w_mat * expected).  With a single label
\* both sums are 0 and the quotient is nan.
CohenKappaScore(rater1, rater2) == ConfusionKappa(Contingency(rater1, rater2), Len(rater1))

\* p_obs = np.trace(contingency) / n
PObs(rater1, rater2) == FRatio(Trace(Contingency(rater1, rater2)), Len(rater1))

\* a plausible fault: the row marginals multiplied with themselves
MarginalProductsOfRows(row_sums, col_sums, n) ==
    [i \in 1..Len(row_sums) |-> FMul(FRatio(row_sums[i], n), FRatio(row_sums[i], n))]

\* row_marginals * col_marginals
MarginalProducts(row_sums, col_sums, n) ==
    [i \in 1..Len(row_sums) |-> FMul(FRatio(row_sums[i], n), FRatio(col_sums[i], n))]

\* p_exp = np.sum(row_marginals * col_marginals)
ExpectedOf(contingency, n) ==
    FSum(MarginalProducts(RowSums(contingency), ColSums(contingency), n), Len(contingency))

PExp(rater1, rater2) == ExpectedOf(Contingency(rater1, rater2), Len(rater1))

\* a plausible fault: no guard for p_exp == 1
SeKappaUnguarded(p_exp, n) == FSqrt(SeKappaRadicand(n, p_exp))

\* Standard error calculation (Fleiss method), simplified
SeKappa(p_exp, n) ==
    IF FEq(p_exp, FOne) THEN FZero ELSE FSqrt(SeKappaRadicand(n, p_exp))

\* a plausible fault: the lower limit clamped at -1 as well
KappaDictClampedLower(kappa, n, p_obs, p_exp, se_kappa) ==
    [status |-> "returned",
     kappa |-> kappa,
     confidence_interval |->
         [lower |-> FMax(FNeg(FOne), FSub(kappa, FMul(ZCritical, se_kappa))),
          upper |-> FMin(FOne, FAdd(kappa, FMul(ZCritical, se_kappa))),
          confidence_level |-> FRatio(95, 100)],
     standard_error |-> se_kappa,
     interpretation |-> InterpretKappa(kappa),
     sample_size |-> n,
     observed_agreement |-> p_obs,
     expected_agreement |-> p_exp]

\* the returned dictionary
KappaDict(kappa, n, p_obs, p_exp, se_kappa) ==
    [status |-> "returned",
     kappa |-> kappa,
     confidence_interval |->
         [lower |-> FSub(kappa, FMul(ZCritical, se_kappa)),
          \* Cap upper CI at 1.0 (GraphPad methodology)
          upper |-> FMin(FOne, FAdd(kappa, FMul(ZCritical, se_kappa))),
          confidence_level |-> FRatio(95, 100)],
     standard_error |-> se_kappa,
     interpretation |-> InterpretKappa(kappa),
     sample_size |-> n,
     observed_agreement |-> p_obs,
     expected_agreement |-> p_exp]

KappaWithSe(kappa, n, p_obs, p_exp) == KappaDict(kappa, n, p_obs, p_exp, SeKappa(p_exp, n))

CalculateCohensKappa(rater1, rater2) ==
    IF Len(rater1) # Len(rater2)
    THEN Raise("ValueError", "Rater arrays must have the same length")
    ELSE IF Len(rater1) = 0
    THEN Raise("ValueError", "Rater arrays cannot be empty")
    ELSE KappaWithSe(CohenKappaScore(rater1, rater2), Len(rater1),
                     PObs(rater1, rater2), PExp(rater1, rater2))

\* ------------------------------------------------------------------------
\* calculate_multiple_comparisons_correction (src/utils/statistics.py).
\* p_values is a list of floats, so p_array and corrected are float arrays.
\* ------------------------------------------------------------------------

\* np.argsort(p_array): the indices in ascending order of their p-values;
\* the order among equal p-values is whatever the sort produces
ArgSorts(p_array) ==
    {o \in Permutations(1..Len(p_array)) :
        \A r \in 1..(Len(p_array) - 1) : FLe(p_array[o[r]], p_array[o[r + 1]])}

\* a plausible fault: the products left uncapped
BonferroniUncapped(p_array, n) == [i \in 1..n |-> FMul(p_array[i], FromInt(n))]

\* corrected = np.minimum(p_array * n, 1.0)
Bonferroni(p_array, n) == [i \in 1..n |-> FMin(FOne, FMul(p_array[i], FromInt(n)))]

\* corrected[idx] = min(1.0, p_array[idx] * (n - i)), read back in sorted
\* order (rank r is i + 1)
HolmScaled(p_array, sorted_indices, n) ==
    [r \in 1..n |-> FMin(FOne, FMul(p_array[sorted_indices[r]], FromInt(n - (r - 1))))]

\* sorted_corrected[i] = max(sorted_corrected[i], sorted_corrected[i-1]),
\* for i ascending
RECURSIVE ForwardMax(_, _)
ForwardMax(sorted_corrected, r) ==
    IF r = 1 THEN sorted_corrected[1]
    ELSE FMax(sorted_corrected[r], ForwardMax(sorted_corrected, r - 1))

\* a plausible fault: the values left in sorted order
ScatterInSortedOrder(sorted_corrected, sorted_indices, n) == sorted_corrected

\* corrected[sorted_indices] = sorted_corrected
Scatter(sorted_corrected, sorted_indices, n) ==
    [idx \in 1..n |-> sorted_corrected[CHOOSE r \in 1..n : sorted_indices[r] = idx]]

\* a plausible fault: the monotonicity pass left out
HolmWithoutForwardPass(p_array, sorted_indices, n) ==
    Scatter(HolmScaled(p_array, sorted_indices, n), sorted_indices, n)

Holm(p_array, sorted_indices, n) ==
    Scatter([r \in 1..n |-> ForwardMax(HolmScaled(p_array, sorted_indices, n), r)],
            sorted_indices, n)

\* corrected[idx] = min(1.0, p_array[idx] * n / (i + 1)), read back in
\* sorted order
FdrScaled(p_array, sorted_indices, n) ==
    [r \in 1..n |->
        FMin(FOne, FDiv(FMul(p_array[sorted_indices[r]], FromInt(n)), FromInt(r)))]

\* sorted_corrected[i] = min(sorted_corrected[i], sorted_corrected[i + 1]),
\* for i descending from the last but one
RECURSIVE BackwardMin(_, _, _)
BackwardMin(sorted_corrected, r, n) ==
    IF r = n THEN sorted_corrected[n]
    ELSE FMin(sorted_corrected[r], BackwardMin(sorted_corrected, r + 1, n))

\* a plausible fault: the monotonicity pass left out
FdrBhWithoutBackwardPass(p_array, sorted_indices, n) ==
    Scatter(FdrScaled(p_array, sorted_indices, n), sorted_indices, n)

FdrBh(p_array, sorted_indices, n) ==
    Scatter([r \in 1..n |-> BackwardMin(FdrScaled(p_array, sorted_indices, n), r, n)],
            sorted_indices, n)

\* (corrected < alpha).tolist(), alpha the literal percent/100
SignificantAt(corrected, percent) ==
    [i \in 1..Len(corrected) |-> FLt(corrected[i], FRatio(percent, 100))]

\* the returned dictionary
CorrectionDict(p_values, corrected, method) ==
    [status |-> "returned",
     original_p_values |-> p_values,
     corrected_p_values |-> corrected,
     method |-> method,
     significant_at_05 |-> SignificantAt(corrected, 5),
     significant_at_01 |-> SignificantAt(corrected, 1)]

\* no branch assigns corrected for any other method, so building the
\* dictionary fails on reading it
CalculateMultipleComparisonsCorrection(p_values, method, sorted_indices) ==
    IF method = "bonferroni"
    THEN CorrectionDict(p_values, Bonferroni(p_values, Len(p_values)), method)
    ELSE IF method = "holm"
    THEN CorrectionDict(p_values, Holm(p_values, sorted_indices, Len(p_values)), method)
    ELSE IF method = "fdr_bh"
    THEN CorrectionDict(p_values, FdrBh(p_values, sorted_indices, Len(p_values)), method)
    ELSE Raise("UnboundLocalError",
               "cannot access local variable 'corrected' where it is not associated with a value")

\* ------------------------------------------------------------------------
\* compare_techniques (src/routes.py).  experiments is the list the query
\* returns; every selected id is taken to be unique and to exist, so the
\* list is as long as experiment_ids.
\* ------------------------------------------------------------------------

\* exp.true_positive + exp.false_positive + exp.true_negative + exp.false_negative
ExperimentTotal(exp) ==
    exp.true_positive + exp.false_positive + exp.true_negative + exp.false_negative

\* min(total1, total2)
MinTotal(total1, total2) == IF total2 < total1 THEN total2 ELSE total1

\* int((count / total1) * min_total)
Share(count, total1, min_total) ==
    FTrunc(FMul(FRatio(count, total1), FromInt(min_total)))

\* the appends of one for-loop: range(k) is empty for k <= 0
Repeat(label, k) == [x \in 1..k |-> label]

\* rater1 after the four loops: 1 for the true and false positives of exp1,
\* 0 for its false and true negatives
SynthesizedRater1(exp1, total1, min_total) ==
    Repeat(1, Share(exp1.true_positive, total1, min_total))
        \o Repeat(1, Share(exp1.false_positive, total1, min_total))
        \o Repeat(0, Share(exp1.false_negative, total1, min_total))
        \o Repeat(0, Share(exp1.true_negative, total1, min_total))

\* rater2 after the four loops
SynthesizedRater2(exp1, total1, min_total) ==
    Repeat(1, Share(exp1.true_positive, total1, min_total))
        \o Repeat(0, Share(exp1.false_positive, total1, min_total))
        \o Repeat(1, Share(exp1.false_negative, total1, min_total))
        \o Repeat(0, Share(exp1.true_negative, total1, min_total))

PairKappaOver(exp1, total1, min_total) ==
    IF total1 = 0
    THEN Raise("ZeroDivisionError", "division by zero")
    ELSE CalculateCohensKappa(SynthesizedRater1(exp1, total1, min_total),
                              SynthesizedRater2(exp1, total1, min_total))

\* kappa_result for the pair (exp1, exp2)
PairKappa(exp1, exp2) ==
    PairKappaOver(exp1, ExperimentTotal(exp1),
                  MinTotal(ExperimentTotal(exp1), ExperimentTotal(exp2)))

\* comparison_key = f"{exp1.name} vs {exp2.name}"
ComparisonKey(exp1, exp2) == exp1.name \o " vs " \o exp2.name

\* the entry stored under the key
ComparisonEntry(kappa_result) ==
    [kappa |-> kappa_result.kappa,
     confidence_interval |-> kappa_result.confidence_interval,
     standard_error |-> kappa_result.standard_error,
     interpretation |-> kappa_result.interpretation]

\* kappa_results[comparison_key] = {...}: an existing key is overwritten
Store(kappa_results, comparison_key, entry) == (comparison_key :> entry) @@ kappa_results

\* the two nested loops from the pair (i, j) on, 1-indexed; an exception
\* leaves them at once
RECURSIVE PairLoop(_, _, _, _)
RECURSIVE PairStep(_, _, _, _, _)
PairStep(exps, i, j, kappa_results, kappa_result) ==
    IF kappa_result.status = "raised"
    THEN kappa_result
    ELSE PairLoop(exps, i, j + 1,
                  Store(kappa_results, ComparisonKey(exps[i], exps[j]),
                        ComparisonEntry(kappa_result)))

PairLoop(exps, i, j, kappa_results) ==
    IF i > Len(exps) THEN [status |-> "completed", kappa_results |-> kappa_results]
    ELSE IF j > Len(exps) THEN PairLoop(exps, i + 1, i + 2, kappa_results)
    ELSE PairStep(exps, i, j, kappa_results, PairKappa(exps[i], exps[j]))

\* flash(message, 'error'); return redirect(url_for('analysis'))
Redirected(message) == [status |-> "redirected", flash |-> message]

\* the ComparisonStudy record is added and committed, and results.html is
\* rendered with kappa_results
Rendered(exps, kappa_results) ==
    [status |-> "rendered",
     comparison |-> [description |-> Len(exps),
                     experiment_ids |-> [x \in 1..Len(exps) |-> exps[x].id],
                     kappa_results |-> kappa_results],
     kappa_results |-> kappa_results]

\* except Exception: the error is logged and flashed, nothing is stored
CompareOutcome(exps, loop) ==
    IF loop.status = "raised"
    THEN Redirected("Error performing technique comparison")
    ELSE Rendered(exps, loop.kappa_results)

CompareTechniques(exps) ==
    IF Len(exps) < 2
    THEN Redirected("Please select at least 2 experiments to compare")
    ELSE CompareOutcome(exps, PairLoop(exps, 1, 2, <<>>))

\* ------------------------------------------------------------------------
\* utils/cost_analysis.py
\* ------------------------------------------------------------------------

\* q rounded up when the discarded part is above one half (c > 0) or is
\* exactly one half (c = 0) and q is odd
RoundTie(q, c) == IF c > 0 \/ (c = 0 /\ BigOdd(q)) THEN BigAdd(q, <<1>>) ELSE q

\* n / 2^k rounded to the nearest integer, ties to even
HalfEven(n, k) ==
    RoundTie(BigShr(n, k), BigCmp(BigSub(n, BigShl(BigShr(n, k), k)), BigShl(<<1>>, k - 1)))

\* m * 2^e * 100 rounded to the nearest integer, ties to even
Hundredths(m, e) ==
    IF e >= 0 THEN BigShl(BigMulSmall(m, 100), e) ELSE HalfEven(BigMulSmall(m, 100), -e)

\* round(x, 2): the exact value of x is rounded to two decimals, ties to
\* even, and the float nearest to that decimal is returned (|x| < 2^46)
PyRound2(x) ==
    IF x.k # "fin" \/ x.m = <<>> THEN x
    ELSE FDiv(Round(x.s, Hundredths(x.m, x.e), 0, FALSE), FromInt(100))

\* the fields of one technique that the engine reads
CostData(equipment, reagent_tenths, maintenance, watts, throughput, skill, minutes, field) ==
    [equipment_cost |-> equipment,
     reagent_cost_per_test |-> FRatio(reagent_tenths, 10),
     maintenance_cost_annual |-> maintenance,
     power_consumption_watts |-> watts,
     throughput_samples_per_hour |-> throughput,
     operator_skill_required |-> skill,
     time_per_test_minutes |-> minutes,
     field_suitability |-> field]

TECHNIQUE_COSTS ==
    [PCR   |-> CostData(525000, 875, 52500, 800, 48, "Medium", 150, "Poor"),
     qPCR  |-> CostData(1225000, 1925, 122500, 1500, 96, "High", 120, "Poor"),
     LAMP  |-> CostData(87500, 1050, 8750, 50, 24, "Medium", 45, "Good"),
     RPA   |-> CostData(35000, 4025, 3500, 20, 12, "Low", 15, "Excellent"),
     NASBA |-> CostData(52500, 2975, 10500, 100, 16, "Medium", 90, "Moderate"),
     TMA   |-> CostData(280000, 2450, 14000, 200, 20, "Medium", 60, "Good"),
     HDA   |-> CostData(3000, 45, 200, 80, 18, "Low", 75, "Good"),
     SDA   |-> CostData(4000, 60, 300, 120, 15, "Medium", 120, "Moderate"),
     NEAR  |-> CostData(2500, 55, 150, 60, 12, "Low", 90, "Excellent")]

\* return value of a call that did not raise
Return(value) == [status |-> "returned", value |-> value]

\* get_technique_costs(technique)
GetTechniqueCosts(technique) ==
    IF technique \notin DOMAIN TECHNIQUE_COSTS
    THEN Raise("ValueError", "Unknown technique: " \o technique)
    ELSE Return(TECHNIQUE_COSTS[technique])

\* equipment_cost / 5 * study_duration_years
EquipmentCostStudy(cost_data, study_duration_years) ==
    FMul(FRatio(cost_data.equipment_cost, 5), study_duration_years)

ReagentCostTotal(cost_data, sample_count) ==
    FMul(cost_data.reagent_cost_per_test, FromInt(sample_count))

MaintenanceCostStudy(cost_data, study_duration_years) ==
    FMul(FromInt(cost_data.maintenance_cost_annual), study_duration_years)

\* (watts / 1000) * (minutes / 60) * sample_count * 4.2
PowerCostTotal(cost_data, sample_count) ==
    FMul(FMul(FMul(FRatio(cost_data.power_consumption_watts, 1000),
                   FRatio(cost_data.time_per_test_minutes, 60)),
              FromInt(sample_count)),
         FRatio(42, 10))

\* total_cost of a known technique, rounded to two decimals
TotalCostOf(cost_data, sample_count, study_duration_years) ==
    PyRound2(FAdd(FAdd(FAdd(EquipmentCostStudy(cost_data, study_duration_years),
                            ReagentCostTotal(cost_data, sample_count)),
                       MaintenanceCostStudy(cost_data, study_duration_years)),
                  PowerCostTotal(cost_data, sample_count)))

\* calculate_total_cost(technique, sample_count, study_duration_years)
CalculateTotalCost(technique, sample_count, study_duration_years) ==
    IF GetTechniqueCosts(technique).status = "raised"
    THEN GetTechniqueCosts(technique)
    ELSE Return(TotalCostOf(GetTechniqueCosts(technique).value, sample_count, study_duration_years))

\* total_cost / sample_count if sample_count > 0 else 0
CostPerSample(total_cost, sample_count) ==
    IF sample_count > 0 THEN FDiv(total_cost, FromInt(sample_count)) ELSE FZero

\* comparison[technique] of compare_technique_costs
CostComparisonEntry(cost_data, total_cost, sample_count, study_duration_years) ==
    [total_cost |-> total_cost,
     cost_per_sample |-> CostPerSample(total_cost, sample_count),
     cost_breakdown |->
         [equipment |-> EquipmentCostStudy(cost_data, study_duration_years),
          reagents |-> ReagentCostTotal(cost_data, sample_count),
          maintenance |-> MaintenanceCostStudy(cost_data, study_duration_years),
          power |-> PowerCostTotal(cost_data, sample_count)],
     performance_metrics |->
         [time_per_test |-> cost_data.time_per_test_minutes,
          throughput_per_hour |-> cost_data.throughput_samples_per_hour,
          field_suitability |-> cost_data.field_suitability,
          operator_skill |-> cost_data.operator_skill_required]]

\* the loop of compare_technique_costs from position i on: a technique that
\* is not in the table is passed over
RECURSIVE CostComparisonLoop(_, _, _, _, _)
CostComparisonLoop(techniques, i, sample_count, study_duration_years, comparison) ==
    IF i > Len(techniques) THEN comparison
    ELSE IF techniques[i] \notin DOMAIN TECHNIQUE_COSTS
    THEN CostComparisonLoop(techniques, i + 1, sample_count, study_duration_years, comparison)
    ELSE CostComparisonLoop(techniques, i + 1, sample_count, study_duration_years,
             (techniques[i] :> CostComparisonEntry(TECHNIQUE_COSTS[techniques[i]],
                                   TotalCostOf(TECHNIQUE_COSTS[techniques[i]], sample_count,
                                               study_duration_years),
                                   sample_count, study_duration_years)) @@ comparison)

\* compare_technique_costs(techniques, sample_count, study_duration_years)
CompareTechniqueCosts(techniques, sample_count, study_duration_years) ==
    Return(CostComparisonLoop(techniques, 1, sample_count, study_duration_years, <<>>))

\* the value None of cost_effectiveness_rank; ranks are 1, 2, ...
None == 0

\* the dictionary calculate_cost_effectiveness returns
CostEffectivenessDict(technique, cost_per_sample, diagnostic_utility, expected_fp_cost, expected_fn_cost) ==
    [technique |-> technique,
     direct_cost_per_sample |-> cost_per_sample,
     diagnostic_utility_score |-> diagnostic_utility,
     cost_per_utility_unit |->
         IF FGt(diagnostic_utility, FZero) THEN FDiv(cost_per_sample, diagnostic_utility)
         ELSE FInf,
     misclassification_costs |->
         [false_positive_cost |-> expected_fp_cost,
          false_negative_cost |-> expected_fn_cost,
          total_error_cost |-> FAdd(expected_fp_cost, expected_fn_cost)],
     total_cost_with_errors |-> FAdd(cost_per_sample, FAdd(expected_fp_cost, expected_fn_cost)),
     cost_effectiveness_rank |-> None]

\* calculate_cost_effectiveness(technique, sensitivity, specificity, sample_count)
CalculateCostEffectiveness(technique, sensitivity, specificity, sample_count) ==
    IF CalculateTotalCost(technique, sample_count, FOne).status = "raised"
    THEN CalculateTotalCost(technique, sample_count, FOne)
    ELSE Return(CostEffectivenessDict(technique,
                    CostPerSample(CalculateTotalCost(technique, sample_count, FOne).value,
                                  sample_count),
                    FDiv(FAdd(sensitivity, specificity), FromInt(2)),
                    FMul(FSub(FOne, specificity), FromInt(100)),
                    FMul(FSub(FOne, sensitivity), FromInt(500))))

\* x['total_cost_with_errors'] of the dictionary with identity id
SortKey(records, id) == records[id].total_cost_with_errors

\* an insertion that goes before entries of equal key
RECURSIVE InsertBeforeEqual(_, _, _)
InsertBeforeEqual(ranked, id, records) ==
    IF ranked = <<>> THEN <<id>>
    ELSE IF FLe(SortKey(records, id), SortKey(records, ranked[Len(ranked)]))
    THEN Append(InsertBeforeEqual(SubSeq(ranked, 1, Len(ranked) - 1), id, records), ranked[Len(ranked)])
    ELSE Append(ranked, id)

\* one more dictionary placed into an ordered list: behind every entry
\* whose key is not greater, so equal keys keep their order
RECURSIVE InsertByKey(_, _, _)
InsertByKey(ranked, id, records) ==
    IF ranked = <<>> THEN <<id>>
    ELSE IF FLt(SortKey(records, id), SortKey(records, ranked[Len(ranked)]))
    THEN Append(InsertByKey(SubSeq(ranked, 1, Len(ranked) - 1), id, records), ranked[Len(ranked)])
    ELSE Append(ranked, id)

\* sorted(techniques_data, key=...) for the first n entries
RECURSIVE SortedByTotalCost(_, _, _)
SortedByTotalCost(techniques_data, records, n) ==
    IF n = 0 THEN <<>>
    ELSE InsertByKey(SortedByTotalCost(techniques_data, records, n - 1), techniques_data[n], records)

\* technique_data['cost_effectiveness_rank'] = i + 1 for the entries from
\* position i on (1-indexed): the dictionaries themselves are written
RECURSIVE AssignRanks(_, _, _)
AssignRanks(records, ranked, i) ==
    IF i > Len(ranked) THEN records
    ELSE AssignRanks([records EXCEPT ![ranked[i]].cost_effectiveness_rank = i], ranked, i + 1)

\* rank_techniques_by_cost_effectiveness(techniques_data): the list holds
\* references (identities) of dictionaries in records; the returned list
\* holds the same references
RankTechniquesByCostEffectiveness(techniques_data, records) ==
    [status |-> "returned",
     value |-> SortedByTotalCost(techniques_data, records, Len(techniques_data)),
     records |-> AssignRanks(records,
                     SortedByTotalCost(techniques_data, records, Len(techniques_data)), 1)]

\* ------------------------------------------------------------------------
\* routes.py: submit_experiment and upload_file, with
\* utils/file_processing.py behind the upload
\* ------------------------------------------------------------------------

\* the integer literals that occur in requests and files
IntLiterals == ("-1" :> -1) @@ ("0" :> 0) @@ ("1" :> 1) @@ ("2" :> 2)

\* int(text): any other text is not a number
ParseInt(text) ==
    IF text \in DOMAIN IntLiterals THEN Return(IntLiterals[text])
    ELSE Raise("ValueError", "invalid literal for int() with base 10: '" \o text \o "'")

\* the four counts of a form or of a row, as texts, all parse
CountsParse(src) ==
    /\ ParseInt(src.true_positive).status = "returned"
    /\ ParseInt(src.false_positive).status = "returned"
    /\ ParseInt(src.true_negative).status = "returned"
    /\ ParseInt(src.false_negative).status = "returned"

\* Experiment(...) followed by set_statistics(stats), for a technique of
\* the table; the statistics column holds the dictionary as JSON
NewExperiment(id, name, description, technique, tp, fp, tn, fn, stats) ==
    [id |-> id, name |-> name, description |-> description, technique |-> technique,
     true_positive |-> tp, false_positive |-> fp,
     true_negative |-> tn, false_negative |-> fn,
     confidence_level |-> FRatio(95, 100),
     reagent_cost |-> TECHNIQUE_COSTS[technique].reagent_cost_per_test,
     equipment_cost |-> TECHNIQUE_COSTS[technique].equipment_cost,
     total_cost |-> TotalCostOf(TECHNIQUE_COSTS[technique], tp + fp + tn + fn, FOne),
     statistics |-> stats]

\* what a handler leaves behind: the response and the experiment table
Outcome(response, table) == [response |-> response, experiments |-> table]

\* the statistics and the cost lookup of one experiment both succeed
Computable(technique, stats) ==
    stats.status = "returned" /\ GetTechniqueCosts(technique).status = "returned"

\* submit_experiment from the call of calculate_diagnostic_stats on
SubmitComputed(form, tp, fp, tn, fn, stats, table) ==
    IF ~Computable(form.technique, stats)
    THEN Outcome(Redirected("Error processing experiment data"), table)
    ELSE Outcome(Redirected("Experiment \"" \o form.name \o "\" created successfully!"),
                 Append(table, NewExperiment(Len(table) + 1, form.name, form.description,
                                             form.technique, tp, fp, tn, fn, stats)))

\* submit_experiment once the four counts are parsed
SubmitParsed(form, tp, fp, tn, fn, table) ==
    IF form.name = "" \/ form.technique = ""
    THEN Outcome(Redirected("Name and technique are required"), table)
    ELSE IF tp + fp + tn + fn = 0
    THEN Outcome(Redirected("At least one confusion matrix value must be greater than 0"), table)
    ELSE SubmitComputed(form, tp, fp, tn, fn, CalculateDiagnosticStats(tp, fp, tn, fn), table)

\* POST /submit_experiment; confidence_level is left at its default
SubmitExperiment(form, table) ==
    IF ~CountsParse(form)
    THEN Outcome(Redirected("Error processing experiment data"), table)
    ELSE SubmitParsed(form, ParseInt(form.true_positive).value,
                      ParseInt(form.false_positive).value,
                      ParseInt(form.true_negative).value,
                      ParseInt(form.false_negative).value, table)

valid_techniques == <<"PCR", "qPCR", "LAMP", "RPA", "NASBA", "TMA", "HDA", "SDA", "NEAR">>

\* the technique texts of files that change under upper()
UpperCased == ("pcr" :> "PCR") @@ ("qPCR" :> "QPCR") @@ ("Lamp" :> "LAMP")

\* technique.upper()
Upper(text) == IF text \in DOMAIN UpperCased THEN UpperCased[text] ELSE text

\* technique_upper in [t.upper() for t in valid_techniques]
TechniqueValid(technique) ==
    \E i \in DOMAIN valid_techniques : Upper(valid_techniques[i]) = Upper(technique)

\* next(t for t in valid_techniques if t.upper() == technique_upper)
TechniqueMatched(technique) ==
    valid_techniques[CHOOSE i \in DOMAIN valid_techniques :
        /\ Upper(valid_techniques[i]) = Upper(technique)
        /\ \A j \in 1..(i - 1) : Upper(valid_techniques[j]) # Upper(technique)]

\* a row passes validate_and_extract_data: known technique, counts that
\* parse, none negative, not all zero
RowKept(row) ==
    /\ TechniqueValid(row.technique)
    /\ CountsParse(row)
    /\ ParseInt(row.true_positive).value >= 0 /\ ParseInt(row.false_positive).value >= 0
    /\ ParseInt(row.true_negative).value >= 0 /\ ParseInt(row.false_negative).value >= 0
    /\ ParseInt(row.true_positive).value + ParseInt(row.false_positive).value
          + ParseInt(row.true_negative).value + ParseInt(row.false_negative).value # 0

\* experiment_data of a row that passes
ExperimentData(row) ==
    [name |-> row.name, description |-> "", technique |-> TechniqueMatched(row.technique),
     tp |-> ParseInt(row.true_positive).value, fp |-> ParseInt(row.false_positive).value,
     tn |-> ParseInt(row.true_negative).value, fn |-> ParseInt(row.false_negative).value]

\* the row loop of validate_and_extract_data from row i on: a row that
\* fails is skipped with a warning
RECURSIVE ExtractRows(_, _)
ExtractRows(rows, i) ==
    IF i > Len(rows) THEN <<>>
    ELSE IF RowKept(rows[i]) THEN <<ExperimentData(rows[i])>> \o ExtractRows(rows, i + 1)
    ELSE ExtractRows(rows, i + 1)

\* validate_and_extract_data(df) for a sheet that has the required columns
ValidateAndExtractData(rows) ==
    IF ExtractRows(rows, 1) = <<>>
    THEN Raise("ValueError", "No valid experiment data found in file.")
    ELSE Return(ExtractRows(rows, 1))

\* file names whose lower-cased form ends in .csv, .xlsx or .xls
SupportedNames == {"data.csv", "DATA.XLSX"}

\* process_uploaded_file(file)
ProcessUploadedFile(file) ==
    IF file.filename \notin SupportedNames
    THEN Raise("ValueError", "Unsupported file format. Please upload CSV or Excel files.")
    ELSE ValidateAndExtractData(file.rows)

\* the loop of upload_file over experiments_data from position i on: an
\* experiment that fails is passed over; created_count counts the others
RECURSIVE CreateFromFile(_, _, _, _)
RECURSIVE CreateOne(_, _, _, _, _, _)
CreateOne(experiments_data, i, exp_data, stats, table, created_count) ==
    IF ~Computable(exp_data.technique, stats)
    THEN CreateFromFile(experiments_data, i + 1, table, created_count)
    ELSE CreateFromFile(experiments_data, i + 1,
             Append(table, NewExperiment(Len(table) + 1, exp_data.name, exp_data.description,
                               exp_data.technique, exp_data.tp, exp_data.fp, exp_data.tn,
                               exp_data.fn, stats)),
             created_count + 1)

CreateFromFile(experiments_data, i, table, created_count) ==
    IF i > Len(experiments_data)
    THEN Outcome(Redirected("Successfully created " \o ToString(created_count)
                                \o " experiments from file"), table)
    ELSE CreateOne(experiments_data, i, experiments_data[i],
                   CalculateDiagnosticStats(experiments_data[i].tp, experiments_data[i].fp,
                                            experiments_data[i].tn, experiments_data[i].fn),
                   table, created_count)

\* upload_file from the return of process_uploaded_file on
UploadProcessed(processed, table) ==
    IF processed.status = "raised"
    THEN Outcome(Redirected("Error processing uploaded file"), table)
    ELSE IF processed.value = <<>>
    THEN Outcome(Redirected("No valid data found in file"), table)
    ELSE CreateFromFile(processed.value, 1, table, 0)

\* POST /upload_file; a request without a file has the file name ''
UploadFile(file, table) ==
    IF file.filename = ""
    THEN Outcome(Redirected("No file selected"), table)
    ELSE UploadProcessed(ProcessUploadedFile(file), table)

\* ------------------------------------------------------------------------
\* State: one call of an engine function, its arguments and its outcome.
\* ------------------------------------------------------------------------

VARIABLES
    tp, fp, tn, fn,   \* arguments of calculate_diagnostic_stats
    rater1, rater2,   \* arguments of calculate_cohens_kappa
    experiments,      \* the experiments selected for compare_techniques
    p_values, method, \* arguments of calculate_multiple_comparisons_correction
    call,             \* the operation of the cost engine that is called, with its arguments
    records,          \* the dictionaries made by calculate_cost_effectiveness, by identity
    pc,               \* "call" before the function runs, "done" after it
    result            \* what the call returned or raised

vars == <<tp, fp, tn, fn, rater1, rater2, experiments, p_values, method, call, records, pc, result>>

\* largest count of the exhaustive inputs
MaxCount == 2

\* -1 stands for an invalid (negative) count
Counts == -1..MaxCount

\* the worked example of the specification: tp=85, fp=3, tn=92, fn=5
ExampleCounts == <<85, 3, 92, 5>>

StatsInputs == (Counts \X Counts \X Counts \X Counts) \cup {ExampleCounts}

NoResult == [status |-> "none"]

NoCall == [op |-> "none"]

Init ==
    /\ \E c \in StatsInputs : tp = c[1] /\ fp = c[2] /\ tn = c[3] /\ fn = c[4]
    /\ rater1 = <<>> /\ rater2 = <<>>
    /\ experiments = <<>>
    /\ p_values = <<>> /\ method = "bonferroni"
    /\ call = NoCall /\ records = <<>>
    /\ pc = "call"
    /\ result = NoResult

\* stats = calculate_diagnostic_stats(tp, fp, tn, fn)
DiagnosticStatsCall ==
    /\ pc = "call"
    /\ result' = CalculateDiagnosticStats(tp, fp, tn, fn)
    /\ pc' = "done"
    /\ UNCHANGED <<tp, fp, tn, fn, rater1, rater2, experiments, p_values, method, call, records>>

Next == DiagnosticStatsCall

Spec == Init /\ [][Next]_vars

\* longest rater sequence of the exhaustive inputs
MaxLen == 3

\* the binary labels of the comparator: 1 positive, 0 negative
Labels == {0, 1}

Ratings == UNION {[1..n -> Labels] : n \in 0..MaxLen}

InitKappa ==
    /\ tp = 0 /\ fp = 0 /\ tn = 0 /\ fn = 0
    /\ rater1 \in Ratings /\ rater2 \in Ratings
    /\ experiments = <<>>
    /\ p_values = <<>> /\ method = "bonferroni"
    /\ call = NoCall /\ records = <<>>
    /\ pc = "call"
    /\ result = NoResult

\* kappa_result = calculate_cohens_kappa(rater1, rater2)
CohensKappaCall ==
    /\ pc = "call"
    /\ result' = CalculateCohensKappa(rater1, rater2)
    /\ pc' = "done"
    /\ UNCHANGED <<tp, fp, tn, fn, rater1, rater2, experiments, p_values, method, call, records>>

NextKappa == CohensKappaCall

SpecKappa == InitKappa /\ [][NextKappa]_vars

\* longest list of p-values of the exhaustive inputs
MaxPValues == 3

\* the p-values tried, in thousandths: 0.001, 0.01, 0.04, 0.5
PValueThousandths == {1, 10, 40, 500}

PValues == {FRatio(t, 1000) : t \in PValueThousandths}

\* the worked examples of the specification, [0.01, 0.02, 0.03] and
\* [0.04, 0.01, 0.03]
ExamplePValues ==
    {<<FRatio(1, 100), FRatio(2, 100), FRatio(3, 100)>>,
     <<FRatio(4, 100), FRatio(1, 100), FRatio(3, 100)>>}

\* a list whose largest p-value, 0.35, is not a multiple of a power of two:
\* 0.35 * 3 / 3 is rounded twice
InexactPValues == {<<FRatio(1, 100), FRatio(4, 100), FRatio(35, 100)>>}

\* every list of the p-values tried, and the other lists in every order
PValueLists ==
    UNION {[1..n -> PValues] : n \in 0..MaxPValues}
        \cup {[i \in 1..3 |-> e[sigma[i]]] :
                 e \in ExamplePValues \cup InexactPValues, sigma \in Permutations(1..3)}

\* the three methods of the function and one it does not know
Methods == {"bonferroni", "holm", "fdr_bh", "hommel"}

InitCorrection ==
    /\ tp = 0 /\ fp = 0 /\ tn = 0 /\ fn = 0
    /\ rater1 = <<>> /\ rater2 = <<>>
    /\ experiments = <<>>
    /\ p_values \in PValueLists /\ method \in Methods
    /\ call = NoCall /\ records = <<>>
    /\ pc = "call"
    /\ result = NoResult

\* calculate_multiple_comparisons_correction(p_values, method)
CorrectionCall ==
    /\ pc = "call"
    /\ \E sorted_indices \in ArgSorts(p_values) :
           result' = CalculateMultipleComparisonsCorrection(p_values, method, sorted_indices)
    /\ pc' = "done"
    /\ UNCHANGED <<tp, fp, tn, fn, rater1, rater2, experiments, p_values, method, call, records>>

NextCorrection == CorrectionCall

SpecCorrection == InitCorrection /\ [][NextCorrection]_vars

\* most experiments selected for one comparison
MaxExperiments == 3

\* names of stored experiments; the name column is not unique
ExperimentNames == {"A", "B", "C"}

\* counts <<tp, fp, tn, fn>> of stored experiments
ExperimentCounts == {<<1, 0, 1, 0>>, <<1, 1, 1, 1>>, <<15, 1, 6, 0>>}

\* the experiment stored under an id
StoredExperiment(id, name, c) ==
    [id |-> id, name |-> name,
     true_positive |-> c[1], false_positive |-> c[2],
     true_negative |-> c[3], false_negative |-> c[4]]

\* the lists a query can return: ids ascending, any names and counts
ExperimentLists ==
    UNION {{[x \in 1..n |-> StoredExperiment(x, names[x], counts[x])] :
               names \in [1..n -> ExperimentNames], counts \in [1..n -> ExperimentCounts]} :
           n \in 0..MaxExperiments}

InitCompare ==
    /\ tp = 0 /\ fp = 0 /\ tn = 0 /\ fn = 0
    /\ rater1 = <<>> /\ rater2 = <<>>
    /\ experiments \in ExperimentLists
    /\ p_values = <<>> /\ method = "bonferroni"
    /\ call = NoCall /\ records = <<>>
    /\ pc = "call"
    /\ result = NoResult

\* POST /compare_techniques
CompareTechniquesCall ==
    /\ pc = "call"
    /\ result' = CompareTechniques(experiments)
    /\ pc' = "done"
    /\ UNCHANGED <<tp, fp, tn, fn, rater1, rater2, experiments, p_values, method, call, records>>

NextCompare == CompareTechniquesCall

SpecCompare == InitCompare /\ [][NextCompare]_vars

\* most techniques in one list of compare_technique_costs
MaxTechniques == 2

\* two techniques of the table and a name that is not in it
CostTechniques == {"PCR", "LAMP", "XYZ"}

SampleCounts == {0, 1000}

\* study_duration_years: the default 1.0, and 2.0
StudyYears == {FOne, FromInt(2)}

\* sensitivities and specificities tried: 0.5, 0.9 and 1.0
Performances == {FRatio(1, 2), FRatio(9, 10), FOne}

GetTechniqueCostsCalls ==
    {[op |-> "get_technique_costs", technique |-> t] : t \in CostTechniques}

CalculateTotalCostCalls ==
    {[op |-> "calculate_total_cost", technique |-> t, sample_count |-> n,
      study_duration_years |-> y] : t \in CostTechniques, n \in SampleCounts, y \in StudyYears}

CompareTechniqueCostsCalls ==
    {[op |-> "compare_technique_costs", techniques |-> ts, sample_count |-> n,
      study_duration_years |-> y] :
        ts \in UNION {[1..k -> CostTechniques] : k \in 0..MaxTechniques},
        n \in SampleCounts, y \in StudyYears}

CalculateCostEffectivenessCalls ==
    {[op |-> "calculate_cost_effectiveness", technique |-> t, sensitivity |-> se,
      specificity |-> sp, sample_count |-> n] :
        t \in CostTechniques, se \in Performances, sp \in Performances, n \in SampleCounts}

InitCost ==
    /\ tp = 0 /\ fp = 0 /\ tn = 0 /\ fn = 0
    /\ rater1 = <<>> /\ rater2 = <<>>
    /\ experiments = <<>>
    /\ p_values = <<>> /\ method = "bonferroni"
    /\ \/ call \in GetTechniqueCostsCalls
       \/ call \in CalculateTotalCostCalls
       \/ call \in CompareTechniqueCostsCalls
       \/ call \in CalculateCostEffectivenessCalls
    /\ records = <<>>
    /\ pc = "call"
    /\ result = NoResult

\* get_technique_costs(technique)
GetTechniqueCostsCall ==
    /\ pc = "call" /\ call.op = "get_technique_costs"
    /\ result' = GetTechniqueCosts(call.technique)
    /\ pc' = "done"
    /\ UNCHANGED <<tp, fp, tn, fn, rater1, rater2, experiments, p_values, method, call, records>>

\* calculate_total_cost(technique, sample_count, study_duration_years)
CalculateTotalCostCall ==
    /\ pc = "call" /\ call.op = "calculate_total_cost"
    /\ result' = CalculateTotalCost(call.technique, call.sample_count, call.study_duration_years)
    /\ pc' = "done"
    /\ UNCHANGED <<tp, fp, tn, fn, rater1, rater2, experiments, p_values, method, call, records>>

\* compare_technique_costs(techniques, sample_count, study_duration_years)
CompareTechniqueCostsCall ==
    /\ pc = "call" /\ call.op = "compare_technique_costs"
    /\ result' = CompareTechniqueCosts(call.techniques, call.sample_count,
                                       call.study_duration_years)
    /\ pc' = "done"
    /\ UNCHANGED <<tp, fp, tn, fn, rater1, rater2, experiments, p_values, method, call, records>>

\* calculate_cost_effectiveness(technique, sensitivity, specificity, sample_count)
CalculateCostEffectivenessCall ==
    /\ pc = "call" /\ call.op = "calculate_cost_effectiveness"
    /\ result' = CalculateCostEffectiveness(call.technique, call.sensitivity,
                                            call.specificity, call.sample_count)
    /\ pc' = "done"
    /\ UNCHANGED <<tp, fp, tn, fn, rater1, rater2, experiments, p_values, method, call, records>>

NextCost ==
    \/ GetTechniqueCostsCall
    \/ CalculateTotalCostCall
    \/ CompareTechniqueCostsCall
    \/ CalculateCostEffectivenessCall

SpecCost == InitCost /\ [][NextCost]_vars

\* most dictionaries a caller of the ranking holds
MaxRecords == 3

\* the analyses a caller ranks: technique and <<sensitivity, specificity>>
\* for 1000 samples
RankedTechniques == {"PCR", "LAMP"}

RankedPerformances == {<<FRatio(1, 2), FRatio(97, 100)>>, <<FOne, FOne>>}

\* every list of references to different dictionaries among the n held
ReferenceLists(n) ==
    UNION {{l \in [1..k -> 1..n] : \A i, j \in 1..k : i # j => l[i] # l[j]} : k \in 0..n}

InitRank ==
    /\ tp = 0 /\ fp = 0 /\ tn = 0 /\ fn = 0
    /\ rater1 = <<>> /\ rater2 = <<>>
    /\ experiments = <<>>
    /\ p_values = <<>> /\ method = "bonferroni"
    /\ call = NoCall /\ records = <<>>
    /\ pc = "call"
    /\ result = NoResult

\* data = calculate_cost_effectiveness(...): the caller keeps the new
\* dictionary
NewAnalysis ==
    /\ Len(records) < MaxRecords
    /\ \E t \in RankedTechniques, p \in RankedPerformances :
          /\ call' = [op |-> "calculate_cost_effectiveness", technique |-> t,
                      sensitivity |-> p[1], specificity |-> p[2], sample_count |-> 1000]
          /\ result' = CalculateCostEffectiveness(t, p[1], p[2], 1000)
          /\ records' = Append(records, CalculateCostEffectiveness(t, p[1], p[2], 1000).value)
    /\ pc' = "done"
    /\ UNCHANGED <<tp, fp, tn, fn, rater1, rater2, experiments, p_values, method>>

\* ranked = rank_techniques_by_cost_effectiveness(techniques_data) for a
\* list of dictionaries the caller holds
RankCall ==
    /\ \E techniques_data \in ReferenceLists(Len(records)) :
          /\ call' = [op |-> "rank_techniques_by_cost_effectiveness",
                      techniques_data |-> techniques_data]
          /\ result' = Return(RankTechniquesByCostEffectiveness(techniques_data, records).value)
          /\ records' = RankTechniquesByCostEffectiveness(techniques_data, records).records
    /\ pc' = "done"
    /\ UNCHANGED <<tp, fp, tn, fn, rater1, rater2, experiments, p_values, method>>

NextRank == NewAnalysis \/ RankCall

SpecRank == InitRank /\ [][NextRank]_vars

\* most experiments in the table
MaxStored == 2

\* the texts a count field can hold
CountTexts ==
    {<<"0", "0", "0", "0">>, <<"1", "0", "1", "0">>, <<"2", "1", "0", "1">>,
     <<"-1", "1", "1", "1">>, <<"1", "-1", "0", "0">>, <<"x", "1", "1", "1">>}

\* the forms submitted: name, technique and the four counts <<tp, fp, tn, fn>>
Forms ==
    {[name |-> n, description |-> "", technique |-> t,
      true_positive |-> c[1], false_positive |-> c[2],
      true_negative |-> c[3], false_negative |-> c[4]] :
        n \in {"", "A", "C"}, t \in {"", "PCR", "XYZ"}, c \in CountTexts}

\* a row of an uploaded file
Row(technique, c) ==
    [name |-> "B", technique |-> technique,
     true_positive |-> c[1], false_positive |-> c[2],
     true_negative |-> c[3], false_negative |-> c[4]]

Rows ==
    {Row("pcr", <<"1", "0", "1", "0">>), Row("Lamp", <<"2", "1", "0", "1">>),
     Row("XYZ", <<"1", "0", "1", "0">>),
     Row("pcr", <<"-1", "1", "1", "1">>), Row("pcr", <<"0", "0", "0", "0">>),
     Row("pcr", <<"x", "1", "1", "1">>)}

\* the uploads: no file, a text file, and sheets of up to two rows
Files ==
    {[filename |-> "", rows |-> <<>>], [filename |-> "notes.txt", rows |-> <<>>]}
        \cup {[filename |-> "data.csv", rows |-> r] : r \in UNION {[1..k -> Rows] : k \in 0..2}}

InitStore ==
    /\ tp = 0 /\ fp = 0 /\ tn = 0 /\ fn = 0
    /\ rater1 = <<>> /\ rater2 = <<>>
    /\ experiments = <<>>
    /\ p_values = <<>> /\ method = "bonferroni"
    /\ call = NoCall /\ records = <<>>
    /\ pc = "call"
    /\ result = NoResult

\* one request to /submit_experiment; experiments is the Experiment table
SubmitExperimentCall ==
    /\ Len(experiments) < MaxStored
    /\ \E form \in Forms : \E outcome \in {SubmitExperiment(form, experiments)} :
          /\ result' = outcome.response
          /\ experiments' = outcome.experiments
    /\ call' = [op |-> "submit_experiment"]
    /\ pc' = "done"
    /\ UNCHANGED <<tp, fp, tn, fn, rater1, rater2, p_values, method, records>>

\* one request to /upload_file
UploadFileCall ==
    /\ \E file \in Files :
          /\ Len(experiments) + Len(file.rows) <= MaxStored
          /\ \E outcome \in {UploadFile(file, experiments)} :
                /\ result' = outcome.response
                /\ experiments' = outcome.experiments
    /\ call' = [op |-> "upload_file"]
    /\ pc' = "done"
    /\ UNCHANGED <<tp, fp, tn, fn, rater1, rater2, p_values, method, records>>

NextStore == SubmitExperimentCall \/ UploadFileCall

SpecStore == InitStore /\ [][NextStore]_vars

\* ------------------------------------------------------------------------
\* Properties of calculate_diagnostic_stats, checked under Spec.
\* ------------------------------------------------------------------------

Done == pc = "done"

Returned == pc = "done" /\ result.status = "returned"

\* the documented precondition: non-negative counts with a positive sum
Valid == tp >= 0 /\ fp >= 0 /\ tn >= 0 /\ fn >= 0 /\ tp + fp + tn + fn > 0

AnyNegative == tp < 0 \/ fp < 0 \/ tn < 0 \/ fn < 0

Total == tp + fp + tn + fn

InUnit(x) == FLe(FZero, x) /\ FLe(x, FOne)

Abs(n) == IF n < 0 THEN -n ELSE n

BigDiff(a, b) == IF BigCmp(a, b) >= 0 THEN BigSub(a, b) ELSE BigSub(b, a)

\* |v - P/Q| * Q * 2^K as a natural number, for a finite float v, integers P
\* and Q > 0, and K >= -v.e
Gap(v, P, Q, K) ==
    IF v.m = <<>> \/ P = 0 \/ (v.s = 1) = (P < 0)
    THEN BigDiff(BigShl(BigMul(v.m, NatToBig(Q)), K + v.e), BigShl(NatToBig(Abs(P)), K))
    ELSE BigAdd(BigShl(BigMul(v.m, NatToBig(Q)), K + v.e), BigShl(NatToBig(Abs(P)), K))

\* v is a float nearest to the exact ratio P/Q (0 <= P <= Q, Q > 0): a
\* normalised mantissa, zero only for P = 0, at most half a unit in the last
\* place away from P/Q
NearestTo(v, P, Q) ==
    /\ v.k = "fin" /\ v.s = 0
    /\ (v.m = <<>>) = (P = 0)
    /\ v.m # <<>> => BigBitLen(v.m) = MantBits /\ v.e < 0
    /\ BigCmp(BigMulSmall(Gap(v, P, Q, -v.e), 2), NatToBig(Q)) <= 0

\* the exact ratio num/den, 0 when the denominator is 0
IsRatio(v, num, den) == IF den = 0 THEN v = FZero ELSE NearestTo(v, num, den)

\* |v - P/Q| <= 2^(-bits) for a finite float v and Q > 0
CloseAt(v, P, Q, bits, K) == BigCmp(Gap(v, P, Q, K), BigShl(NatToBig(Q), K - bits)) <= 0

CloseTo(v, P, Q, bits) ==
    v.k = "fin" /\ CloseAt(v, P, Q, bits, IF -v.e > bits THEN -v.e ELSE bits)

\* C1: calculate_diagnostic_stats with tp = fp = tn = fn = 0 raises the
\* invalid-input error (ValueError, "All confusion matrix values cannot be
\* zero") and returns no result record.
AllZeroRaisesInvalidInput ==
    (Done /\ tp = 0 /\ fp = 0 /\ tn = 0 /\ fn = 0)
        => /\ result.status = "raised"
           /\ result.error = "ValueError"
           /\ result.message = "All confusion matrix values cannot be zero"

AllZeroCallRaised ==
    Done /\ tp = 0 /\ fp = 0 /\ tn = 0 /\ fn = 0 /\ result.status = "raised"

\* C2: calculate_diagnostic_stats with any of tp, fp, tn, fn negative raises
\* the invalid-input error and returns no result record, whatever the sum of
\* the four counts is.
NegativeCountRaisesInvalidInput ==
    (Done /\ AnyNegative)
        => /\ result.status = "raised"
           /\ result.error = "ValueError"

\* C3: for non-negative counts with a positive sum the call returns a record
\* whose sensitivity, specificity, ppv, npv, accuracy and prevalence lie in
\* [0, 1] and whose mcc lies in [-1, 1].
RatiosWithinRange ==
    (Done /\ Valid)
        => /\ result.status = "returned"
           /\ InUnit(result.sensitivity.value)
           /\ InUnit(result.specificity.value)
           /\ InUnit(result.ppv.value)
           /\ InUnit(result.npv.value)
           /\ InUnit(result.accuracy.value)
           /\ InUnit(result.prevalence.value)
           /\ FLe(FNeg(FOne), result.mcc) /\ FLe(result.mcc, FOne)

\* a record with a specificity and an mcc strictly inside their ranges
RatiosStrictlyInside ==
    /\ Returned /\ Valid
    /\ FLt(FZero, result.specificity.value) /\ FLt(result.specificity.value, FOne)
    /\ FLt(FZero, result.mcc) /\ FLt(result.mcc, FOne)

\* C4: for valid counts sensitivity = tp/(tp+fn), specificity = tn/(tn+fp),
\* ppv = tp/(tp+fp), npv = tn/(tn+fn), accuracy = (tp+tn)/total, prevalence =
\* (tp+fn)/total, each the float nearest to the exact ratio and 0 when the
\* denominator is 0, and sample_size = total.
RatiosAreExactQuotients ==
    (Returned /\ Valid)
        => /\ IsRatio(result.sensitivity.value, tp, tp + fn)
           /\ IsRatio(result.specificity.value, tn, tn + fp)
           /\ IsRatio(result.ppv.value, tp, tp + fp)
           /\ IsRatio(result.npv.value, tn, tn + fn)
           /\ IsRatio(result.accuracy.value, tp + tn, Total)
           /\ IsRatio(result.prevalence.value, tp + fn, Total)
           /\ result.sample_size = Total

\* the worked example: tp=85, fp=3, tn=92, fn=5 gives 85/90, 92/95, 177/185
ExampleQuotients ==
    /\ Returned /\ <<tp, fp, tn, fn>> = ExampleCounts
    /\ NearestTo(result.sensitivity.value, 85, 90)
    /\ NearestTo(result.specificity.value, 92, 95)
    /\ NearestTo(result.accuracy.value, 177, 185)
    /\ result.sample_size = 185

ProportionContained(pr) ==
    /\ FLe(FZero, pr.ci_lower)
    /\ FLe(pr.ci_lower, pr.value)
    /\ FLe(pr.value, pr.ci_upper)
    /\ FLe(pr.ci_upper, FOne)

\* C5: for valid counts the Wilson interval returned with each of the five
\* proportions contains the point estimate:
\* 0 <= ci_lower <= value <= ci_upper <= 1.
WilsonContainsEstimate ==
    (Returned /\ Valid)
        => /\ ProportionContained(result.sensitivity)
           /\ ProportionContained(result.specificity)
           /\ ProportionContained(result.ppv)
           /\ ProportionContained(result.npv)
           /\ ProportionContained(result.accuracy)

\* the ratio a/b of the formulas, 0 when the denominator is 0
RatioOrZero(a, b) == IF b > 0 THEN FRatio(a, b) ELSE FZero

\* C6: for valid counts lr_positive = sensitivity/fpr, +infinity when
\* fpr = 0; lr_negative = fnr/specificity, +infinity when specificity = 0;
\* diagnostic_odds_ratio = lr_positive/lr_negative, +infinity when
\* lr_negative is 0 or is no number.
LikelihoodRatiosAsDefined ==
    (Returned /\ Valid)
        => /\ result.likelihood_ratios.positive =
                IF fp = 0 THEN FInf
                ELSE FDiv(result.sensitivity.value, RatioOrZero(fp, fp + tn))
           /\ result.likelihood_ratios.negative =
                IF tn = 0 THEN FInf
                ELSE FDiv(RatioOrZero(fn, fn + tp), result.specificity.value)
           /\ result.diagnostic_odds_ratio =
                IF \/ FIsZero(result.likelihood_ratios.negative)
                   \/ result.likelihood_ratios.negative.k = "nan"
                THEN FInf
                ELSE FDiv(result.likelihood_ratios.positive,
                          result.likelihood_ratios.negative)

\* no false positive and no false negative: lr_positive is infinite,
\* lr_negative is 0 and the odds ratio is infinite
InfiniteOddsRatio ==
    /\ Returned /\ Valid
    /\ fp = 0 /\ result.likelihood_ratios.positive = FInf
    /\ tn > 0 /\ FIsZero(result.likelihood_ratios.negative)
    /\ result.diagnostic_odds_ratio = FInf

\* total^2 * expected agreement
ExpectedTimesSquare == (tp + fn) * (tp + fp) + (tn + fp) * (tn + fn)

\* (observed - expected)/(1 - expected) in float arithmetic
ProxyFormula(observed, expected) == FDiv(FSub(observed, expected), FSub(FOne, expected))

\* C7: for valid counts the kappa proxy is (observed - expected)/(1 - expected)
\* with observed = (tp+tn)/total and expected =
\* ((tp+fn)(tp+fp)+(tn+fp)(tn+fn))/total^2 when expected < 1, and 0 when
\* expected = 1: the float formula, which is within 2^-40 of the exact value.
KappaProxyAsDefined ==
    (Returned /\ Valid)
        => IF ExpectedTimesSquare = Total * Total
           THEN result.cohens_kappa.value = FZero
           ELSE /\ result.cohens_kappa.value =
                     ProxyFormula(FRatio(tp + tn, Total),
                                  FRatio(ExpectedTimesSquare, Total * Total))
                /\ CloseTo(result.cohens_kappa.value,
                           Total * (tp + tn) - ExpectedTimesSquare,
                           Total * Total - ExpectedTimesSquare, 40)

\* a proxy that is neither 0 nor 1, from counts with expected < 1
KappaProxyComputed ==
    /\ Returned /\ Valid
    /\ ExpectedTimesSquare < Total * Total
    /\ FLt(FZero, result.cohens_kappa.value)
    /\ FLt(result.cohens_kappa.value, FOne)

\* the Altman label of a kappa value
AltmanLabel(k) ==
    IF FLt(k, FRatio(1, 5)) THEN "Poor agreement"
    ELSE IF FLt(k, FRatio(2, 5)) THEN "Fair agreement"
    ELSE IF FLt(k, FRatio(3, 5)) THEN "Moderate agreement"
    ELSE IF FLt(k, FRatio(4, 5)) THEN "Good agreement"
    ELSE "Very good agreement"

\* C8 (kappa proxy path): for every valid input the returned interpretation
\* is the Altman label of the returned kappa value; no other label is ever
\* returned.
InterpretationIsAltmanLabel ==
    (Returned /\ Valid)
        => result.cohens_kappa.interpretation = AltmanLabel(result.cohens_kappa.value)

\* z * SE with SE = sqrt(expected/(total * (1 - expected)^2))
ProxyHalfWidth(total, expected) ==
    FMul(ZCritical,
         FSqrt(FDiv(expected,
                    FMul(FromInt(total), FMul(FSub(FOne, expected), FSub(FOne, expected))))))

ProxyIntervalIs(k, lower, upper, w) ==
    /\ lower = FMax(FNeg(FOne), FSub(k, w))
    /\ upper = FMin(FOne, FAdd(k, w))

\* C9: for valid counts the interval of the kappa proxy is kappa +/- z*SE
\* clipped to [-1, 1], and -1 <= ci_lower <= value <= ci_upper <= 1.
KappaProxyIntervalClipped ==
    (Returned /\ Valid)
        => /\ FLe(FNeg(FOne), result.cohens_kappa.ci_lower)
           /\ FLe(result.cohens_kappa.ci_lower, result.cohens_kappa.value)
           /\ FLe(result.cohens_kappa.value, result.cohens_kappa.ci_upper)
           /\ FLe(result.cohens_kappa.ci_upper, FOne)
           /\ ExpectedTimesSquare < Total * Total
                => ProxyIntervalIs(result.cohens_kappa.value,
                                   result.cohens_kappa.ci_lower,
                                   result.cohens_kappa.ci_upper,
                                   ProxyHalfWidth(Total,
                                       FRatio(ExpectedTimesSquare, Total * Total)))

\* an interval clipped at both ends around a value strictly inside (-1, 1)
KappaProxyClippedBothEnds ==
    /\ Returned /\ Valid
    /\ result.cohens_kappa.ci_lower = FNeg(FOne)
    /\ result.cohens_kappa.ci_upper = FOne
    /\ FLt(FNeg(FOne), result.cohens_kappa.value)
    /\ FLt(result.cohens_kappa.value, FOne)

\* a float that is neither nan nor infinite
Defined(x) == x.k = "fin"

\* C26: for valid counts every numeric field of the record is a defined
\* value, and diagnostic_odds_ratio is a non-negative number or +infinity,
\* never the undefined quotient infinity/infinity.
EveryFieldDefined ==
    (Returned /\ Valid) =>
        /\ \A f \in {"sensitivity", "specificity", "ppv", "npv", "accuracy"} :
              /\ Defined(result[f].value) /\ Defined(result[f].percentage)
              /\ Defined(result[f].ci_lower) /\ Defined(result[f].ci_upper)
        /\ Defined(result.prevalence.value)
        /\ Defined(result.f1_score) /\ Defined(result.mcc)
        /\ Defined(result.cohens_kappa.value)
        /\ result.likelihood_ratios.positive.k # "nan"
        /\ result.likelihood_ratios.negative.k # "nan"
        /\ result.diagnostic_odds_ratio.k # "nan"
        /\ FGe(result.diagnostic_odds_ratio, FZero)

\* ------------------------------------------------------------------------
\* Properties of calculate_cohens_kappa, checked under SpecKappa.
\* ------------------------------------------------------------------------

\* min(1, x)
CapAtOne(x) == IF FGt(x, FOne) THEN FOne ELSE x

\* the kind of error a length mismatch raises
MismatchKind == CalculateCohensKappa(<<1>>, <<>>).error

\* C10: calculate_cohens_kappa fails when the sequences differ in length and
\* when both are empty, the two failures are of distinguishable error kinds,
\* and a result is returned only for equal, non-zero length.
KappaFailuresDistinguishable ==
    Done => /\ Len(rater1) # Len(rater2) => result.status = "raised"
            /\ (Len(rater1) = 0 /\ Len(rater2) = 0)
                 => result.status = "raised" /\ result.error # MismatchKind
            /\ result.status = "returned"
                 => Len(rater1) = Len(rater2) /\ Len(rater1) > 0

\* C11: for equal-length non-empty sequences, calculate_cohens_kappa(A, B)
\* and calculate_cohens_kappa(B, A) return the same kappa, observed and
\* expected agreement, standard error and interval.
KappaSymmetric ==
    Returned =>
        /\ CalculateCohensKappa(rater2, rater1).kappa = result.kappa
        /\ CalculateCohensKappa(rater2, rater1).observed_agreement = result.observed_agreement
        /\ CalculateCohensKappa(rater2, rater1).expected_agreement = result.expected_agreement
        /\ CalculateCohensKappa(rater2, rater1).standard_error = result.standard_error
        /\ CalculateCohensKappa(rater2, rater1).confidence_interval = result.confidence_interval

\* C11 witness: a result for two sequences whose contingency table is not
\* symmetric, so that exchanging them exchanges unequal marginals.
KappaOfAsymmetricTable ==
    /\ Returned
    /\ result.kappa.k = "fin"
    /\ RowSums(Contingency(rater1, rater2)) # ColSums(Contingency(rater1, rater2))

\* both sequences are equal and carry one single label
SameSingleLabel ==
    /\ Len(rater1) > 0
    /\ rater1 = rater2
    /\ \A i \in 1..Len(rater1) : rater1[i] = rater1[1]

\* C12: when both sequences are equal and carry one single label, p_exp is
\* 1, the call returns and the standard error is 0.
SingleLabelStandardErrorZero ==
    (Done /\ SameSingleLabel) =>
        /\ result.status = "returned"
        /\ result.expected_agreement = FOne
        /\ result.standard_error = FZero

\* C12 witness: a call on three equal ratings of one label has returned.
SingleLabelCallReturned ==
    /\ Returned /\ SameSingleLabel /\ Len(rater1) = 3
    /\ result.standard_error = FZero

\* the sum over the categories of row total times column total
MarginalCross == IntSum([i \in 1..Len(Contingency(rater1, rater2)) |-> RowSums(Contingency(rater1, rater2))[i] * ColSums(Contingency(rater1, rater2))[i]], Len(Contingency(rater1, rater2)))

\* C13: every result of calculate_cohens_kappa has a defined kappa in
\* [-1, 1] that equals (p_obs - p_exp)/(1 - p_exp) up to rounding, with
\* p_obs = trace/n, p_exp the sum of row marginal times column marginal and
\* sample_size = n.
KappaDefinedInRange ==
    Returned =>
        /\ result.sample_size = Len(rater1)
        /\ NearestTo(result.observed_agreement, Trace(Contingency(rater1, rater2)), Len(rater1))
        /\ CloseTo(result.expected_agreement, MarginalCross, Len(rater1) * Len(rater1), 48)
        /\ result.kappa.k = "fin"
        /\ FLe(FNeg(FOne), result.kappa) /\ FLe(result.kappa, FOne)
        /\ MarginalCross < Len(rater1) * Len(rater1)
             => CloseTo(result.kappa, Len(rater1) * Trace(Contingency(rater1, rater2)) - MarginalCross, Len(rater1) * Len(rater1) - MarginalCross, 48)

\* C14: in every result of calculate_cohens_kappa the upper limit is at most
\* 1, and for a defined kappa it is min(1, kappa + z * SE) while the lower
\* limit is kappa - z * SE without a clamp.
KappaUpperCappedLowerFree ==
    Returned =>
        /\ FLe(result.confidence_interval.upper, FOne)
        /\ result.kappa.k = "fin" =>
              /\ result.confidence_interval.upper
                    = CapAtOne(FAdd(result.kappa, FMul(ZCritical, result.standard_error)))
              /\ result.confidence_interval.lower
                    = FSub(result.kappa, FMul(ZCritical, result.standard_error))

\* C14 witness: total disagreement on two labels, where the lower limit is
\* below -1 and the upper limit is capped at 1.
KappaLowerBelowMinusOne ==
    /\ Returned
    /\ rater1 = <<0, 1>> /\ rater2 = <<1, 0>>
    /\ result.kappa = FNeg(FOne)
    /\ FLt(result.confidence_interval.lower, FNeg(FOne))
    /\ FLe(result.confidence_interval.upper, FOne)

\* ------------------------------------------------------------------------
\* Properties of calculate_multiple_comparisons_correction, checked under
\* SpecCorrection.
\* ------------------------------------------------------------------------

KnownMethods == {"bonferroni", "holm", "fdr_bh"}

Corrected == result.corrected_p_values

NumP == Len(p_values)

\* the largest and the smallest float of a non-empty set
Largest(S) == CHOOSE v \in S : \A x \in S : FLe(x, v)

Smallest(S) == CHOOSE v \in S : \A x \in S : FLe(v, x)

\* C16: with method 'bonferroni' every corrected value is min(1, p_i * n),
\* reported at index i, and [0.01, 0.02, 0.03] gives [0.03, 0.06, 0.09].
BonferroniScalesAndCaps ==
    (Done /\ method = "bonferroni") =>
        /\ result.status = "returned"
        /\ Len(Corrected) = NumP
        /\ \A i \in 1..NumP : Corrected[i] = CapAtOne(FMul(p_values[i], FromInt(NumP)))
        /\ (p_values = <<FRatio(1, 100), FRatio(2, 100), FRatio(3, 100)>>
              => Corrected = <<FRatio(3, 100), FRatio(6, 100), FRatio(9, 100)>>)

\* C16 witness: the example list has been corrected with 'bonferroni'.
BonferroniExampleCorrected ==
    /\ Done /\ method = "bonferroni" /\ result.status = "returned"
    /\ p_values = <<FRatio(1, 100), FRatio(2, 100), FRatio(3, 100)>>
    /\ Corrected = <<FRatio(3, 100), FRatio(6, 100), FRatio(9, 100)>>

\* min(1, p * (n - j)) for the p-value of 0-indexed rank j = r - 1
HolmTerm(o, r) == CapAtOne(FMul(p_values[o[r]], FromInt(NumP - (r - 1))))

\* C17: with method 'holm', for every ascending ranking of the p-values the
\* value reported at the position of the p-value of rank r is the largest
\* HolmTerm over the ranks up to r, and the values are non-decreasing in
\* rank order.
HolmIsRunningMaximum ==
    (Done /\ method = "holm") =>
        /\ result.status = "returned"
        /\ Len(Corrected) = NumP
        /\ \A o \in ArgSorts(p_values) :
              /\ \A r \in 1..NumP :
                    Corrected[o[r]] = Largest({HolmTerm(o, j) : j \in 1..r})
              /\ \A r \in 1..(NumP - 1) : FLe(Corrected[o[r]], Corrected[o[r + 1]])

\* C17 witness: a 'holm' call whose input is not in ascending order and in
\* which the running maximum raised a value above its own term.
HolmRaisedAValue ==
    /\ Done /\ method = "holm" /\ result.status = "returned"
    /\ p_values = <<FRatio(4, 100), FRatio(1, 100), FRatio(3, 100)>>
    /\ \E o \in ArgSorts(p_values) : \E r \in 1..NumP : FGt(Corrected[o[r]], HolmTerm(o, r))

\* min(1, p * n / (j + 1)) for the p-value of 0-indexed rank j = r - 1
FdrTerm(o, r) == CapAtOne(FDiv(FMul(p_values[o[r]], FromInt(NumP)), FromInt(r)))

\* C18: with method 'fdr_bh', for every ascending ranking of the p-values
\* the value reported at the position of the p-value of rank r is the
\* smallest FdrTerm over the ranks from r on, and the values are
\* non-decreasing in rank order.
FdrBhIsRunningMinimum ==
    (Done /\ method = "fdr_bh") =>
        /\ result.status = "returned"
        /\ Len(Corrected) = NumP
        /\ \A o \in ArgSorts(p_values) :
              /\ \A r \in 1..NumP :
                    Corrected[o[r]] = Smallest({FdrTerm(o, j) : j \in r..NumP})
              /\ \A r \in 1..(NumP - 1) : FLe(Corrected[o[r]], Corrected[o[r + 1]])

\* C18 witness: an 'fdr_bh' call whose input is not in ascending order and
\* in which the running minimum lowered a value below its own term.
FdrBhLoweredAValue ==
    /\ Done /\ method = "fdr_bh" /\ result.status = "returned"
    /\ p_values = <<FRatio(4, 100), FRatio(1, 100), FRatio(3, 100)>>
    /\ \E o \in ArgSorts(p_values) : \E r \in 1..NumP : FLt(Corrected[o[r]], FdrTerm(o, r))

\* the list p with its entries k and k + 1 exchanged
Swapped(p, k) ==
    [i \in 1..Len(p) |-> IF i = k THEN p[k + 1] ELSE IF i = k + 1 THEN p[k] ELSE p[i]]

\* exchanging two neighbouring inputs exchanges their corrected values and
\* leaves the others alone; every permutation is a sequence of such
\* exchanges, and the lists tried are closed under them
PermutesWithInput ==
    \A k \in 1..(NumP - 1) :
        \A o \in ArgSorts(Swapped(p_values, k)) :
            CalculateMultipleComparisonsCorrection(Swapped(p_values, k), method, o).corrected_p_values
                = Swapped(Corrected, k)

\* C19: for each of the three methods the corrected values and both flag
\* lists are as long as the input, permuting the input permutes the
\* corrected values the same way, original_p_values is the input, and flag i
\* is true exactly when corrected value i is below 0.05 (0.01).
CorrectionKeepsInputOrder ==
    (Done /\ method \in KnownMethods) =>
        /\ result.status = "returned"
        /\ result.method = method
        /\ result.original_p_values = p_values
        /\ Len(Corrected) = NumP
        /\ Len(result.significant_at_05) = NumP
        /\ Len(result.significant_at_01) = NumP
        /\ \A i \in 1..NumP :
              /\ result.significant_at_05[i] = FLt(Corrected[i], FRatio(5, 100))
              /\ result.significant_at_01[i] = FLt(Corrected[i], FRatio(1, 100))
        /\ PermutesWithInput

\* C19 witness: a sorting method has corrected a list that is not in
\* ascending order, with both flags taking both values.
UnsortedInputFlagged ==
    /\ Done /\ method \in {"holm", "fdr_bh"} /\ result.status = "returned"
    /\ NumP = 3 /\ FGt(p_values[1], p_values[2]) /\ FGt(p_values[2], p_values[3])
    /\ result.significant_at_05 = <<FALSE, TRUE, TRUE>>
    /\ result.significant_at_01 = <<FALSE, FALSE, TRUE>>
    /\ FLt(Corrected[3], Corrected[2]) /\ FLt(Corrected[2], Corrected[1])

\* C20: a method other than 'bonferroni', 'holm' and 'fdr_bh' ends the call
\* with an invalid-input error (ValueError, the kind the engine raises for
\* invalid input).
UnknownMethodRaisesInvalidInput ==
    (Done /\ method \notin KnownMethods) =>
        /\ result.status = "raised"
        /\ result.error = "ValueError"

\* ------------------------------------------------------------------------
\* Properties of compare_techniques, checked under SpecCompare.
\* ------------------------------------------------------------------------

\* every experiment has as many samples as the first, so that no pair of the
\* comparison is left with empty rater sequences
SameTotalThroughout ==
    \A x \in 1..Len(experiments) :
        ExperimentTotal(experiments[x]) = ExperimentTotal(experiments[1])

\* C15: a comparison of n >= 2 experiments renders a kappa table with
\* exactly n(n-1)/2 entries, one for each pair of experiments (stated for
\* experiments of equal sample size, where every pair yields a kappa).
KappaTableHasEveryPair ==
    (Done /\ Len(experiments) >= 2 /\ SameTotalThroughout) =>
        /\ result.status = "rendered"
        /\ Cardinality(DOMAIN result.kappa_results)
              = (Len(experiments) * (Len(experiments) - 1)) \div 2

\* the pairs (x, y) the two loops of one comparison visit
ComparedPairs == {c \in (1..Len(experiments)) \X (1..Len(experiments)) : c[1] < c[2]}

\* min(totalA, totalB) for the experiments at positions x and y
PairMinTotal(x, y) ==
    MinTotal(ExperimentTotal(experiments[x]), ExperimentTotal(experiments[y]))

\* rater1 and rater2 as synthesized for the pair (x, y)
PairRater1(x, y) ==
    SynthesizedRater1(experiments[x], ExperimentTotal(experiments[x]), PairMinTotal(x, y))

PairRater2(x, y) ==
    SynthesizedRater2(experiments[x], ExperimentTotal(experiments[x]), PairMinTotal(x, y))

\* floor(count / total * minTotal), in exact arithmetic
FloorShare(count, x, y) == (count * PairMinTotal(x, y)) \div ExperimentTotal(experiments[x])

\* a pairs (1,1), b pairs (1,0), c pairs (0,1) and d pairs (0,0), in this order
FirstOfPairs(a, b, c, d) == Repeat(1, a) \o Repeat(1, b) \o Repeat(0, c) \o Repeat(0, d)

SecondOfPairs(a, b, c, d) == Repeat(1, a) \o Repeat(0, b) \o Repeat(1, c) \o Repeat(0, d)

\* C22: for each pair (A, B) of a comparison the two rater sequences are
\* floor(tpA/totalA * minTotal) pairs (1,1), floor(fpA/totalA * minTotal)
\* pairs (1,0), floor(fnA/totalA * minTotal) pairs (0,1) and
\* floor(tnA/totalA * minTotal) pairs (0,0), of equal length between
\* minTotal - 3 and minTotal.
RatersAreFlooredShares ==
    (Done /\ Len(experiments) >= 2) =>
        \A c \in ComparedPairs :
            /\ PairRater1(c[1], c[2])
                  = FirstOfPairs(FloorShare(experiments[c[1]].true_positive, c[1], c[2]),
                                 FloorShare(experiments[c[1]].false_positive, c[1], c[2]),
                                 FloorShare(experiments[c[1]].false_negative, c[1], c[2]),
                                 FloorShare(experiments[c[1]].true_negative, c[1], c[2]))
            /\ PairRater2(c[1], c[2])
                  = SecondOfPairs(FloorShare(experiments[c[1]].true_positive, c[1], c[2]),
                                  FloorShare(experiments[c[1]].false_positive, c[1], c[2]),
                                  FloorShare(experiments[c[1]].false_negative, c[1], c[2]),
                                  FloorShare(experiments[c[1]].true_negative, c[1], c[2]))
            /\ Len(PairRater1(c[1], c[2])) = Len(PairRater2(c[1], c[2]))
            /\ Len(PairRater1(c[1], c[2])) <= PairMinTotal(c[1], c[2])
            /\ Len(PairRater1(c[1], c[2])) >= PairMinTotal(c[1], c[2]) - 3

\* every stored experiment of the comparison has valid counts
StoredCountsValid ==
    \A x \in 1..Len(experiments) :
        /\ experiments[x].true_positive >= 0 /\ experiments[x].false_positive >= 0
        /\ experiments[x].true_negative >= 0 /\ experiments[x].false_negative >= 0
        /\ ExperimentTotal(experiments[x]) > 0

\* C27: for stored experiments with valid counts the rater sequences of
\* every pair are non-empty, and the comparison is rendered and stored
\* rather than aborted.
ComparisonNeverAborts ==
    (Done /\ Len(experiments) >= 2 /\ StoredCountsValid) =>
        /\ \A c \in ComparedPairs : PairRater1(c[1], c[2]) # <<>>
        /\ result.status = "rendered"

\* C28: the kappa of a pair does not depend on which experiment comes
\* first: where (A, B) and (B, A) both yield a result, it is the same kappa.
PairKappaUnordered ==
    (Done /\ Len(experiments) >= 2) =>
        \A c \in ComparedPairs :
            (/\ PairKappa(experiments[c[1]], experiments[c[2]]).status = "returned"
             /\ PairKappa(experiments[c[2]], experiments[c[1]]).status = "returned")
                => PairKappa(experiments[c[1]], experiments[c[2]]).kappa
                      = PairKappa(experiments[c[2]], experiments[c[1]]).kappa

\* |a - b| <= 2^-30 for two floats
Near(a, b) ==
    /\ a.k = "fin" /\ b.k = "fin"
    /\ FLe(FSub(a, b), FRatio(1, 1073741824))
    /\ FLe(FSub(b, a), FRatio(1, 1073741824))

\* calculate_cohens_kappa on the matrix of an experiment expanded into tp
\* pairs (1,1), fp pairs (1,0), fn pairs (0,1) and tn pairs (0,0)
ExpandedKappa(e) ==
    CalculateCohensKappa(
        FirstOfPairs(e.true_positive, e.false_positive, e.false_negative, e.true_negative),
        SecondOfPairs(e.true_positive, e.false_positive, e.false_negative, e.true_negative))

\* the kappa proxy of calculate_diagnostic_stats for an experiment
ProxyOf(e) == KappaProxy(e.true_positive, e.false_positive, e.true_negative, e.false_negative)

ProxyExpected(e) ==
    ExpectedAgreement(e.true_positive, e.false_positive, e.true_negative, e.false_negative)

ProxyObserved(e) ==
    ObservedAgreement(e.true_positive, e.false_positive, e.true_negative, e.false_negative)

\* C29: for an experiment with expected agreement < 1 the kappa proxy, its
\* observed and its expected agreement equal (up to rounding) what
\* calculate_cohens_kappa returns for the expanded matrix, and the kappa of a
\* pair (A, B) with totalA <= totalB equals the proxy of A.
ProxyMatchesPairKappa ==
    (Done /\ Len(experiments) >= 2) =>
        /\ \A x \in 1..Len(experiments) :
              FLt(ProxyExpected(experiments[x]), FOne) =>
                  /\ Near(ProxyOf(experiments[x]).value, ExpandedKappa(experiments[x]).kappa)
                  /\ Near(ProxyObserved(experiments[x]),
                          ExpandedKappa(experiments[x]).observed_agreement)
                  /\ Near(ProxyExpected(experiments[x]),
                          ExpandedKappa(experiments[x]).expected_agreement)
        /\ \A c \in ComparedPairs :
              (/\ FLt(ProxyExpected(experiments[c[1]]), FOne)
               /\ ExperimentTotal(experiments[c[1]]) <= ExperimentTotal(experiments[c[2]]))
                  => /\ PairKappa(experiments[c[1]], experiments[c[2]]).status = "returned"
                     /\ Near(PairKappa(experiments[c[1]], experiments[c[2]]).kappa,
                             ProxyOf(experiments[c[1]]).value)

\* ------------------------------------------------------------------------
\* The three corrections compared, checked under SpecCorrection.
\* ------------------------------------------------------------------------

\* the corrected values of p_values under a method, for one order of the sort
CorrectedBy(m, o) == CalculateMultipleComparisonsCorrection(p_values, m, o).corrected_p_values

\* C30: for every index i, p_i <= fdr_bh corrected_i <= holm corrected_i
\* <= bonferroni corrected_i <= 1.
CorrectionsOrdered ==
    Done =>
        \A o \in ArgSorts(p_values) : \A i \in 1..NumP :
            /\ FLe(p_values[i], CorrectedBy("fdr_bh", o)[i])
            /\ FLe(CorrectedBy("fdr_bh", o)[i], CorrectedBy("holm", o)[i])
            /\ FLe(CorrectedBy("holm", o)[i], CorrectedBy("bonferroni", o)[i])
            /\ FLe(CorrectedBy("bonferroni", o)[i], FOne)

\* ------------------------------------------------------------------------
\* Properties of the cost engine, checked under SpecCost and SpecRank.
\* ------------------------------------------------------------------------

\* the technique names a call of the cost engine looks up
LookedUp ==
    IF call.op = "compare_technique_costs"
    THEN {call.techniques[i] : i \in DOMAIN call.techniques}
    ELSE {call.technique}

\* C21: get_technique_costs, calculate_total_cost, calculate_cost_effectiveness
\* and compare_technique_costs all fail with an invalid-input error when a
\* technique they look up is unknown; none skips it or falls back to a default.
UnknownTechniqueRaises ==
    (Done /\ \E t \in LookedUp : t \notin DOMAIN TECHNIQUE_COSTS) =>
        result.status = "raised" /\ result.error = "ValueError"

RankWasCalled == call.op = "rank_techniques_by_cost_effectiveness"

\* position of the reference id in the list l
PositionIn(l, id) == CHOOSE i \in DOMAIN l : l[i] = id

\* C24: rank_techniques_by_cost_effectiveness returns a permutation of the
\* input records in non-decreasing order of total_cost_with_errors, equal
\* values in input order, with cost_effectiveness_rank 1..n along the result;
\* total_cost_with_errors of a record is cost_per_sample +
\* (1 - specificity) * 100 + (1 - sensitivity) * 500 (up to rounding).
RankingOrdersByTotalCost ==
    /\ (call.op = "calculate_cost_effectiveness" /\ result.status = "returned") =>
          Near(result.value.total_cost_with_errors,
               FAdd(FAdd(result.value.direct_cost_per_sample,
                         FMul(FSub(FOne, call.specificity), FromInt(100))),
                    FMul(FSub(FOne, call.sensitivity), FromInt(500))))
    /\ RankWasCalled =>
          /\ Len(result.value) = Len(call.techniques_data)
          /\ {result.value[i] : i \in DOMAIN result.value}
                = {call.techniques_data[i] : i \in DOMAIN call.techniques_data}
          /\ \A i, j \in DOMAIN result.value :
                i < j =>
                    /\ FLe(SortKey(records, result.value[i]), SortKey(records, result.value[j]))
                    /\ FEq(SortKey(records, result.value[i]), SortKey(records, result.value[j]))
                          => PositionIn(call.techniques_data, result.value[i])
                                < PositionIn(call.techniques_data, result.value[j])
          /\ \A i \in DOMAIN result.value :
                records[result.value[i]].cost_effectiveness_rank = i

\* three records were ranked into another order than given, two of them of
\* equal total cost and given in the reverse of the order they were made in
RankedAReorderedListWithATie ==
    /\ RankWasCalled
    /\ Len(call.techniques_data) = 3
    /\ result.value # call.techniques_data
    /\ \E i, j \in DOMAIN result.value :
          /\ i < j /\ result.value[i] > result.value[j]
          /\ FEq(SortKey(records, result.value[i]), SortKey(records, result.value[j]))

\* C25: the operations of the engine have no side effects: a ranking leaves
\* every record it is given as it was, cost_effectiveness_rank included, so
\* two rankings that share records do not affect each other.
RankingLeavesRecordsAlone ==
    [][\A id \in DOMAIN records : records'[id] = records[id]]_vars

\* ------------------------------------------------------------------------
\* Properties of the stored experiments, checked under SpecStore.
\* ------------------------------------------------------------------------

\* C23: after any sequence of submit_experiment and upload_file requests,
\* every Experiment in the table has four non-negative counts whose sum is
\* greater than zero.
StoredCountsAreValid ==
    \A x \in DOMAIN experiments :
        /\ experiments[x].true_positive >= 0 /\ experiments[x].false_positive >= 0
        /\ experiments[x].true_negative >= 0 /\ experiments[x].false_negative >= 0
        /\ experiments[x].true_positive + experiments[x].false_positive
              + experiments[x].true_negative + experiments[x].false_negative > 0

====
